---------------------------- MODULE Spec2Model ----------------------------
(***************************************************************************)
(* MusicRecommender: the tag-based taste profile (UserTag rows), the       *)
(* feedback-to-taste adapter, the profile recompute, the recommendation    *)
(* builders and the views that drive them.                                 *)
(*                                                                         *)
(* Numbers.  weight, confidence and score are Python floats in [0,1].      *)
(* They are modelled in fixed point: the integer x stands for x / One.     *)
(* The catalogue weights below are multiples of One/50, which makes every  *)
(* product and every average the code computes on them an exact integer.   *)
(***************************************************************************)
EXTENDS Integers, Sequences, FiniteSets, TLC

\* 1.0 in fixed point (FloatField with validators 0.0 .. 1.0).
One == 6000

\* x * y for fixed-point x, y.
Mul(x, y) == (x * y) \div One

\* p / 100 as a fixed-point number.
Pct(p) == (p * One) \div 100

--------------------------------------------------------------------------
(* Bounds of the model *)

\* The number of ColdStartTrack rows of a table.
MaxColdStartRows == 2

\* The number of User rows a behaviour creates.
MaxUsers == 2

\* The length of the longest tag name.
MaxStr == 3

\* The number of attempts to create a RecommendationItem a behaviour makes.
MaxItems == 2

\* Number of UserTag-writing calls in one behaviour of Spec.
MaxOps == 3

\* Number of HTTP requests in one behaviour of SpecViews.
MaxPosts == 2

--------------------------------------------------------------------------
(* Catalogue: tags, tracks, artists and their tag assignments *)

Users == {1, 2}
Tags == 1 .. 5
Tracks == 1 .. 6
Artists == 1 .. 2

\* Tag.normalized_name
TagName(t) ==
    CASE t = 1 -> "rock"
      [] t = 2 -> "pop"
      [] t = 3 -> "seen live"
      [] t = 4 -> "myradio"
      [] OTHER -> "newtag"

\* Tag.total_usage_count (default 0)
TagUsage(t) ==
    CASE t = 1 -> 5
      [] t = 2 -> 3
      [] t = 3 -> 9
      [] t = 4 -> 2
      [] OTHER -> 0

\* The part of BLOCKED_TAG_NAMES the catalogue uses.
BLOCKED_TAG_NAMES == {"seen live", "favourites", "music", "all"}

MIN_TAG_USAGE_COUNT == 3

\* TrackTag rows, unique per (track, tag, source).
TrackTagRows ==
    { [track |-> 1, tag |-> 1, source |-> "artist", weight |-> Pct(100), is_active |-> TRUE],
      [track |-> 1, tag |-> 2, source |-> "artist", weight |-> Pct(80),  is_active |-> TRUE],
      [track |-> 1, tag |-> 3, source |-> "artist", weight |-> Pct(100), is_active |-> TRUE],
      [track |-> 2, tag |-> 1, source |-> "artist", weight |-> Pct(50),  is_active |-> TRUE],
      [track |-> 2, tag |-> 1, source |-> "lastfm", weight |-> Pct(80),  is_active |-> TRUE],
      [track |-> 2, tag |-> 2, source |-> "artist", weight |-> Pct(90),  is_active |-> FALSE],
      [track |-> 2, tag |-> 4, source |-> "artist", weight |-> Pct(100), is_active |-> TRUE],
      [track |-> 3, tag |-> 5, source |-> "artist", weight |-> Pct(100), is_active |-> TRUE] }

\* Track.artists, in order; the first is the primary artist.
TrackArtists(k) ==
    CASE k = 1 -> <<1>>
      [] k = 2 -> <<1, 2>>
      [] k = 3 -> <<2>>
      [] OTHER -> <<>>

\* ArtistTag rows, unique per (artist, tag, source).
ArtistTagRows ==
    { [artist |-> 1, tag |-> 1, source |-> "lastfm", weight |-> Pct(100), is_active |-> TRUE],
      [artist |-> 2, tag |-> 2, source |-> "lastfm", weight |-> Pct(50),  is_active |-> TRUE],
      [artist |-> 2, tag |-> 2, source |-> "computed", weight |-> Pct(100), is_active |-> TRUE],
      [artist |-> 2, tag |-> 3, source |-> "lastfm", weight |-> Pct(100), is_active |-> TRUE],
      [artist |-> 2, tag |-> 1, source |-> "lastfm", weight |-> Pct(50),  is_active |-> FALSE] }

--------------------------------------------------------------------------
(* Tag quality filter *)

\* The tag predicate of filter_track_tags / filter_artist_tags and of the
\* feedback adapter's inline filter: usage >= MIN and name not blocked.
TagPassesFilter(t) ==
    /\ TagUsage(t) >= MIN_TAG_USAGE_COUNT
    /\ TagName(t) \notin BLOCKED_TAG_NAMES

\* is_valid_tag(tag).  normalized_name is stored lowercased by Tag.save, so
\* .lower() leaves it as it is; a total_usage_count of 0 is falsy and skips
\* the usage check.
is_valid_tag(t) ==
    IF TagName(t) \in BLOCKED_TAG_NAMES THEN FALSE
    ELSE IF TagUsage(t) # 0 /\ TagUsage(t) < MIN_TAG_USAGE_COUNT THEN FALSE
    ELSE TRUE

\* filter_track_tags(TrackTag.objects.filter(track=track))
filter_track_tags(rows) ==
    { r \in rows : r.is_active /\ TagPassesFilter(r.tag) }

\* filter_artist_tags(ArtistTag.objects.filter(...))
filter_artist_tags(rows) ==
    { r \in rows : r.is_active /\ TagPassesFilter(r.tag) }

--------------------------------------------------------------------------
(* UserTag rows *)

Sources == {"feedback", "onboarding_track", "onboarding_artist_fallback", "computed"}

UTKeys == Users \X Tags \X Sources

\* The absence of a row for a key.
NoRow == [exists |-> FALSE, weight |-> 0, confidence |-> 0, is_active |-> FALSE]

Row(w, c, a) == [exists |-> TRUE, weight |-> w, confidence |-> c, is_active |-> a]

Actions == {"LIKE", "SKIP", "DISLIKE"}

\* Variant of WEIGHT_DELTAS that penalises a SKIP.
WEIGHT_DELTAS_SkipPenalty(a) ==
    IF a = "LIKE" THEN Pct(10) ELSE IF a = "DISLIKE" THEN 0 - Pct(15) ELSE 0 - Pct(5)

WEIGHT_DELTAS(a) ==
    CASE a = "LIKE" -> Pct(10)
      [] a = "SKIP" -> 0
      [] a = "DISLIKE" -> 0 - Pct(15)
      [] OTHER -> 0

CONFIDENCE_DELTAS(a) ==
    CASE a = "LIKE" -> Pct(5)
      [] a = "SKIP" -> 0
      [] a = "DISLIKE" -> 0 - Pct(5)
      [] OTHER -> 0

Max2(a, b) == IF a >= b THEN a ELSE b
Min2(a, b) == IF a <= b THEN a ELSE b

\* Variant of clamp without the lower bound.
clamp_NoFloor(value) == IF value > One THEN One ELSE value

clamp(value) == Max2(0, Min2(One, value))

\* A queryset with Meta.ordering = ["-weight"] as the list the code iterates:
\* descending weight; the database orders rows of equal weight as it likes.
RECURSIVE ByWeightDesc(_)
ByWeightDesc(rows) ==
    IF rows = {} THEN <<>>
    ELSE LET top == CHOOSE r \in rows : \A q \in rows : q.weight <= r.weight
         IN  <<top>> \o ByWeightDesc(rows \ {top})


--------------------------------------------------------------------------
(* Feedback-to-taste adapter: feedback_service.apply_feedback_to_tags *)

\* Variant of FeedbackTrackTags without the tag quality conditions.
FeedbackTrackTags_Unfiltered(track) ==
    { r \in TrackTagRows : r.track = track /\ r.is_active }

\* The adapter's own TrackTag query: active rows of the track whose tag has
\* total_usage_count >= MIN_TAG_USAGE_COUNT and is not blocklisted.
\* track = 0 stands for item.track being None (an ARTIST item).
FeedbackTrackTags(track) ==
    { r \in TrackTagRows :
        /\ r.track = track
        /\ r.is_active
        /\ TagUsage(r.tag) >= MIN_TAG_USAGE_COUNT
        /\ TagName(r.tag) \notin BLOCKED_TAG_NAMES }

\* Variant of FeedbackUpsert that seeds a new row without the influence.
FeedbackUpsert_SeedOnly(old, ttWeight, action) ==
    IF ~old.exists
    THEN Row(clamp(Mul(Pct(30), ttWeight)), clamp(Pct(40)), TRUE)
    ELSE [old EXCEPT !.weight = clamp(old.weight + Mul(WEIGHT_DELTAS(action), ttWeight)),
                     !.confidence = clamp(old.confidence + Mul(CONFIDENCE_DELTAS(action), ttWeight))]

\* Variant of FeedbackUpsert that leaves a row that already exists as it is.
FeedbackUpsert_CreateOnly(old, ttWeight, action) ==
    IF ~old.exists
    THEN Row(clamp(Mul(Pct(30), ttWeight) + Mul(WEIGHT_DELTAS(action), ttWeight)),
             clamp(Pct(40) + Mul(CONFIDENCE_DELTAS(action), ttWeight)),
             TRUE)
    ELSE old

\* One iteration of the loop: get_or_create with soft-start defaults, or
\* the in-place update of the row that was found (weight and confidence
\* only; is_active is not among update_fields).
FeedbackUpsert(old, ttWeight, action) ==
    LET influence == Mul(WEIGHT_DELTAS(action), ttWeight)
        confidence_influence == Mul(CONFIDENCE_DELTAS(action), ttWeight)
    IN  IF ~old.exists
        THEN Row(clamp(Mul(Pct(30), ttWeight) + influence),
                 clamp(Pct(40) + confidence_influence),
                 TRUE)
        ELSE [old EXCEPT !.weight = clamp(@ + influence),
                         !.confidence = clamp(@ + confidence_influence)]

RECURSIVE FeedbackLoop(_, _, _, _)
FeedbackLoop(uts, user, tts, action) ==
    IF tts = <<>> THEN uts
    ELSE LET tt == Head(tts)
             key == <<user, tt.tag, "feedback">>
         IN  FeedbackLoop([uts EXCEPT ![key] = FeedbackUpsert(@, tt.weight, action)],
                          user, Tail(tts), action)

apply_feedback_to_tags(uts, user, track, action) ==
    IF WEIGHT_DELTAS(action) = 0 /\ CONFIDENCE_DELTAS(action) = 0
    THEN uts
    ELSE LET track_tags == ByWeightDesc(FeedbackTrackTags(track))
         IN  IF track_tags = <<>> THEN uts
             ELSE FeedbackLoop(uts, user, track_tags, action)

--------------------------------------------------------------------------
(* Onboarding like: OnboardingInteractView._apply_onboarding_like *)

SeqRange(s) == { s[i] : i \in 1 .. Len(s) }

\* update_or_create(user, tag, source, defaults = weight, confidence, active)
\* for every row of the list, in order; factor scales the row's weight.
RECURSIVE OnboardingLoop(_, _, _, _, _, _)
OnboardingLoop(uts, user, rows, source, factor, confidence) ==
    IF rows = <<>> THEN uts
    ELSE LET r == Head(rows)
             key == <<user, r.tag, source>>
         IN  OnboardingLoop([uts EXCEPT ![key] = Row(Mul(r.weight, factor), confidence, TRUE)],
                            user, Tail(rows), source, factor, confidence)

apply_onboarding_like(uts, user, track) ==
    LET track_tags == filter_track_tags({ r \in TrackTagRows : r.track = track })
        artist_tags == filter_artist_tags(
            { r \in ArtistTagRows : r.artist \in SeqRange(TrackArtists(track)) })
    IN  IF track_tags # {}
        THEN OnboardingLoop(uts, user, ByWeightDesc(track_tags),
                            "onboarding_track", One, Pct(70))
        ELSE IF artist_tags # {}
        THEN OnboardingLoop(uts, user, ByWeightDesc(artist_tags),
                            "onboarding_artist_fallback", Pct(80), Pct(50))
        ELSE uts

--------------------------------------------------------------------------
(* Profile recompute: UserTagManager.recompute_computed *)

\* The sources with an active non-computed row of (user, tag).
RawSources(uts, user, tag) ==
    { s \in Sources \ {"computed"} :
        uts[<<user, tag, s>>].exists /\ uts[<<user, tag, s>>].is_active }

RECURSIVE SumWeight(_, _, _, _)
SumWeight(uts, user, tag, srcs) ==
    IF srcs = {} THEN 0
    ELSE LET s == CHOOSE x \in srcs : TRUE
         IN  uts[<<user, tag, s>>].weight + SumWeight(uts, user, tag, srcs \ {s})

RECURSIVE SumConfidence(_, _, _, _)
SumConfidence(uts, user, tag, srcs) ==
    IF srcs = {} THEN 0
    ELSE LET s == CHOOSE x \in srcs : TRUE
         IN  uts[<<user, tag, s>>].confidence + SumConfidence(uts, user, tag, srcs \ {s})

\* Variant of recompute_computed that leaves the table as it is.
recompute_computed_Skipped(uts, user) == uts

\* Variant of recompute_computed whose averages run over every active row of
\* the tag, the "computed" row included.
recompute_computed_SelfFeeding(uts, user) ==
    [ k \in UTKeys |->
        IF k[1] = user /\ k[3] = "computed" /\ RawSources(uts, user, k[2]) # {}
        THEN LET srcs == { s \in Sources : uts[<<user, k[2], s>>].exists
                                           /\ uts[<<user, k[2], s>>].is_active }
             IN  Row(SumWeight(uts, user, k[2], srcs) \div Cardinality(srcs),
                     SumConfidence(uts, user, k[2], srcs) \div Cardinality(srcs),
                     TRUE)
        ELSE uts[k] ]

\* Variant of recompute_computed that also deactivates the "computed" row of
\* a tag that has no active non-computed row left.
recompute_computed_Pruning(uts, user) ==
    [ k \in UTKeys |->
        IF k[1] = user /\ k[3] = "computed"
        THEN IF RawSources(uts, user, k[2]) # {}
             THEN LET srcs == RawSources(uts, user, k[2])
                  IN  Row(SumWeight(uts, user, k[2], srcs) \div Cardinality(srcs),
                          SumConfidence(uts, user, k[2], srcs) \div Cardinality(srcs),
                          TRUE)
             ELSE [uts[k] EXCEPT !.is_active = FALSE]
        ELSE uts[k] ]

\* Avg("weight"), Avg("confidence") grouped by tag, then update_or_create of
\* the (user, tag, "computed") row for every group.
recompute_computed(uts, user) ==
    [ k \in UTKeys |->
        IF k[1] = user /\ k[3] = "computed" /\ RawSources(uts, user, k[2]) # {}
        THEN LET srcs == RawSources(uts, user, k[2])
             IN  Row(SumWeight(uts, user, k[2], srcs) \div Cardinality(srcs),
                     SumConfidence(uts, user, k[2], srcs) \div Cardinality(srcs),
                     TRUE)
        ELSE uts[k] ]

--------------------------------------------------------------------------
(* User taste profile: services.recomendation.get_user_tag_profile *)

\* The tags with an active "computed" row of the user.
ComputedTags(uts, user) ==
    { t \in Tags : uts[<<user, t, "computed">>].exists
                   /\ uts[<<user, t, "computed">>].is_active }

\* The sources with an active row of (user, tag), whatever the source.
ActiveSources(uts, user, tag) ==
    { s \in Sources : uts[<<user, tag, s>>].exists /\ uts[<<user, tag, s>>].is_active }

RECURSIVE SumScore(_, _, _, _)
SumScore(uts, user, tag, srcs) ==
    IF srcs = {} THEN 0
    ELSE LET s == CHOOSE x \in srcs : TRUE
             r == uts[<<user, tag, s>>]
         IN  Mul(r.weight, r.confidence) + SumScore(uts, user, tag, srcs \ {s})

\* get_user_tag_profile(user): {tag: weight * confidence} from the computed
\* rows when there is one, else the mean of weight * confidence over the
\* user's active rows of each tag.
get_user_tag_profile(uts, user) ==
    IF ComputedTags(uts, user) # {}
    THEN [ t \in ComputedTags(uts, user) |->
             Mul(uts[<<user, t, "computed">>].weight, uts[<<user, t, "computed">>].confidence) ]
    ELSE [ t \in { x \in Tags : ActiveSources(uts, user, x) # {} } |->
             SumScore(uts, user, t, ActiveSources(uts, user, t))
               \div Cardinality(ActiveSources(uts, user, t)) ]

--------------------------------------------------------------------------
(* Strategy detection: services.recomendation.detect_strategy *)

HYBRID_MIN_SIGNALS == 20

\* Variant of detect_strategy with a strict threshold.
detect_strategy_Strict(has_spotify, history_count, top_items_count) ==
    IF ~has_spotify THEN "COLD_START"
    ELSE IF history_count + top_items_count > 20 THEN "HYBRID_START"
    ELSE "WARM_START"

\* has_spotify: a SpotifyAccount row of the user exists; history_count and
\* top_items_count: the user's ListeningHistory and UserTopItem row counts.
detect_strategy(has_spotify, history_count, top_items_count) ==
    IF ~has_spotify THEN "COLD_START"
    ELSE IF history_count + top_items_count >= HYBRID_MIN_SIGNALS THEN "HYBRID_START"
    ELSE "WARM_START"

--------------------------------------------------------------------------
(* Recommendation snapshots, their items and the feedback on them *)

TOP_ITEMS_COUNT == 5
MIN_LIKES_TO_COMPLETE == 3

RecIds == 1 .. 3
Items == 1 .. 8

\* Recommendation rows in the database: user 1 has an active and an older
\* inactive cold-start snapshot, and an active hybrid snapshot.
RecommendationRows ==
    [ r \in RecIds |->
        CASE r = 1 -> [user |-> 1, strategy |-> "COLD_START", status |-> "READY", is_active |-> TRUE]
          [] r = 2 -> [user |-> 1, strategy |-> "COLD_START", status |-> "READY", is_active |-> FALSE]
          [] OTHER -> [user |-> 1, strategy |-> "HYBRID_START", status |-> "READY", is_active |-> TRUE] ]

\* RecommendationItem rows.  Snapshot 1 has six track items ranked 0..5,
\* snapshot 2 one item, snapshot 3 a single item left at rank 7 (the tracks of
\* its better-ranked items were deleted, which cascades to the items).
ItemRec(i) == IF i <= 6 THEN 1 ELSE IF i = 7 THEN 2 ELSE 3
ItemTrack(i) == IF i <= 6 THEN i ELSE IF i = 7 THEN 1 ELSE 2
ItemRank(i) == IF i <= 6 THEN i - 1 ELSE IF i = 7 THEN 0 ELSE 7

\* ColdStartTrack rows: id -> track.
ColdStartIds == 1 .. 3
ColdStartTrackOf(c) == c

OnboardingActions == {"LIKE", "SKIP", "NOT_MY_STYLE"}

--------------------------------------------------------------------------
(* State *)

VARIABLES
    userTags,              \* the UserTag table: UTKeys -> row or NoRow
    nOps,                  \* calls made so far (Spec)
    last,                  \* the last call: what ran, for whom, with which input
    events,                \* OnboardingEvent: (user, cold start track) -> action or "none"
    onboarding_completed,  \* profile.onboarding_completed per user
    feedbackRows,          \* RecommendationFeedback: (user, item) -> action or "none"
    recommendations,       \* the Recommendation table
    taskQueue,             \* build_recommendation_task messages not yet run
    resp,                  \* the last HTTP response
    buildLog,              \* what the last build task did
    nPosts,                \* requests handled so far (SpecViews)
    hasSpotify,            \* SpotifyAccount exists, per user
    historyCount,          \* ListeningHistory rows, per user
    topItemsCount,         \* UserTopItem rows, per user
    strategyLog,           \* the last detect_strategy call and its result
    scored_tracks,         \* apply_artist_diversity: the input list
    max_per_artist,        \* apply_artist_diversity: the limit
    diversityResult,       \* apply_artist_diversity: what the call produced
    call,                  \* concurrent feedback: the (track, action) of each call
    pc,                    \* concurrent feedback: where each call is
    todo,                  \* concurrent feedback: the TrackTag rows still to apply
    seen,                  \* concurrent feedback: the row the call's SELECT returned
    uncommitted,           \* concurrent feedback: the rows the call wrote, not yet committed
    readers,               \* connections holding SQLite's SHARED lock
    writer,                \* the connection holding SQLite's RESERVED lock, or 0
    committedBefore,       \* concurrent feedback: the UserTag table before the two calls
    track_ids,             \* scoring: the candidate track ids, in list order
    user_tag_profile,      \* scoring: the {tag_id: score} profile of the user
    seed_tracks_ids,       \* scoring: the seed track ids
    listening_history,     \* scoring: the tracks of the user's ListeningHistory rows
    top_items,             \* scoring: the user's UserTopItem rows
    returned,              \* scoring: the function last called and what it returned
    cache,                 \* locks: the keys of the Django cache
    refreshTasks,          \* locks: the executions of the cold start refresh tasks
    buildTasks,            \* locks: the executions of build_recommendation_task
    itemRows,              \* items: the RecommendationItem rows, in insertion order
    itemResult,            \* items: the last attempt to create an item and its outcome
    tagRow,                \* tags: a Tag instance, its name and normalized_name
    userRows,              \* users: the User rows, in insertion order
    userResult,            \* users: the last create_user call and its outcome
    coldStartRows,         \* pools: the ColdStartTrack rows
    poolResult             \* pools: the pool function last called and what it returned

tagVars == <<userTags, nOps, last>>
viewVars == <<events, onboarding_completed, feedbackRows, recommendations,
              taskQueue, resp, buildLog, nPosts>>
accountVars == <<hasSpotify, historyCount, topItemsCount, strategyLog>>
diversityVars == <<scored_tracks, max_per_artist, diversityResult>>
concVars == <<call, pc, todo, seen, uncommitted, readers, writer, committedBefore>>
scoringVars == <<track_ids, user_tag_profile, seed_tracks_ids, listening_history,
                 top_items, returned>>
lockVars == <<cache, refreshTasks, buildTasks>>

itemVars == <<itemRows, itemResult>>

userVars == <<userRows, userResult>>

poolVars == <<coldStartRows, poolResult>>

miscVars == <<itemVars, tagRow, userVars, poolVars>>

auxVars == <<accountVars, diversityVars, concVars, scoringVars, lockVars, miscVars>>

coreVars == <<tagVars, viewVars, accountVars, diversityVars, concVars, scoringVars, lockVars>>

vars == <<tagVars, viewVars, auxVars>>

NoCall == [op |-> "none", user |-> 0, track |-> 0, action |-> "none"]

NoResp == [view |-> "none", user |-> 0, status |-> 0, body |-> "none",
           rebuild_triggered |-> FALSE]

NoBuild == [user |-> 0, force_rebuild |-> FALSE, strategy |-> "none", outcome |-> "none"]

\* The database before any request of the behaviour.
ViewsIdle ==
    /\ events = [k \in Users \X ColdStartIds |-> "none"]
    /\ onboarding_completed = [u \in Users |-> FALSE]
    /\ feedbackRows = [k \in Users \X Items |-> "none"]
    /\ recommendations = RecommendationRows
    /\ taskQueue = <<>>
    /\ resp = NoResp
    /\ buildLog = NoBuild
    /\ nPosts = 0

NoStrategy == [user |-> 0, strategy |-> "none"]

AccountsIdle ==
    /\ hasSpotify = [u \in Users |-> FALSE]
    /\ historyCount = [u \in Users |-> 0]
    /\ topItemsCount = [u \in Users |-> 0]
    /\ strategyLog = NoStrategy

NoResult == [exc |-> "not_called", value |-> <<>>]

\* No apply_artist_diversity call in the behaviour.
DiversityIdle ==
    /\ scored_tracks = <<>>
    /\ max_per_artist = 2
    /\ diversityResult = NoResult

Procs == {1, 2}

\* No concurrent feedback calls in the behaviour.
ConcIdle ==
    /\ call = [p \in Procs |-> [track |-> 0, action |-> "SKIP"]]
    /\ pc = [p \in Procs |-> "done"]
    /\ todo = [p \in Procs |-> <<>>]
    /\ seen = [p \in Procs |-> NoRow]
    /\ uncommitted = [p \in Procs |-> [t \in Tags |-> NoRow]]
    /\ readers = {}
    /\ writer = 0
    /\ committedBefore = [k \in UTKeys |-> NoRow]

EmptyMap == <<>>

NotCalled == [fn |-> "none", exc |-> "none", value |-> EmptyMap]

\* No scoring call in the behaviour.
ScoringIdle ==
    /\ track_ids = <<>>
    /\ user_tag_profile = EmptyMap
    /\ seed_tracks_ids = <<>>
    /\ listening_history = {}
    /\ top_items = {}
    /\ returned = NotCalled

\* The executions of one task the model follows.
Executions == {"first", "second"}

\* The sources of the global cold start refresh.
RefreshSources == {"spotify_global", "lastfm_global"}

RefreshJobs == RefreshSources \X Executions

\* A task execution that has not been enqueued.
NoTask == [pc |-> "idle", raised |-> "none", value |-> "none"]

NoBuildTask == [pc |-> "idle", user |-> 0, force_rebuild |-> FALSE, raised |-> "none"]

\* No lock key is cached and no task has been enqueued.
LocksIdle ==
    /\ cache = {}
    /\ refreshTasks = [j \in RefreshJobs |-> NoTask]
    /\ buildTasks = [e \in Executions |-> NoBuildTask]

\* No attempt to create a RecommendationItem.
NoItemResult == [item |-> [type |-> "none", track |-> 0, artist |-> 0],
                 path |-> "none", exc |-> "none", saved |-> FALSE]

ItemsIdle ==
    /\ itemRows = <<>>
    /\ itemResult = NoItemResult

\* No Tag instance is being saved.
TagIdle == tagRow = [name |-> <<>>, normalized_name |-> <<>>, saved |-> FALSE]

\* No create_user call.
NoUserResult == [email |-> "none", password |-> "none", exc |-> "none"]

UsersIdle ==
    /\ userRows = <<>>
    /\ userResult = NoUserResult

\* No call of a pool function.
NoPoolResult == [fn |-> "none", limit |-> 0, exc |-> "none", value |-> {}]

PoolsIdle ==
    /\ coldStartRows = {}
    /\ poolResult = NoPoolResult

MiscIdle == ItemsIdle /\ TagIdle /\ UsersIdle /\ PoolsIdle

AuxIdle == AccountsIdle /\ DiversityIdle /\ ConcIdle /\ ScoringIdle /\ LocksIdle /\ MiscIdle

TypeOK ==
    /\ userTags \in [UTKeys -> [exists : BOOLEAN, weight : Int, confidence : Int, is_active : BOOLEAN]]
    /\ nOps \in 0 .. MaxOps

RECURSIVE RepeatFeedback(_, _, _, _, _)
RepeatFeedback(uts, user, track, action, n) ==
    IF n = 0 THEN uts
    ELSE RepeatFeedback(apply_feedback_to_tags(uts, user, track, action),
                        user, track, action, n - 1)

\* The UserTag table of a user 1 who liked recommendations of track 1 seven
\* times: the "rock" feedback weight has reached 1.
LikedOften == RepeatFeedback([k \in UTKeys |-> NoRow], 1, 1, "LIKE", 7)

\* The table is empty, or user 1 already has a feedback history.
Init ==
    /\ userTags \in {[k \in UTKeys |-> NoRow], LikedOften}
    /\ nOps = 0
    /\ last = NoCall
    /\ ViewsIdle
    /\ AuxIdle

\* apply_feedback_to_tags(user, item, action); track 0: the item has no track.
ApplyFeedback(user, track, action) ==
    /\ nOps < MaxOps
    /\ userTags' = apply_feedback_to_tags(userTags, user, track, action)
    /\ nOps' = nOps + 1
    /\ last' = [op |-> "feedback", user |-> user, track |-> track, action |-> action]
    /\ UNCHANGED <<viewVars, auxVars>>

\* _apply_onboarding_like(user, track)
OnboardingLike(user, track) ==
    /\ nOps < MaxOps
    /\ userTags' = apply_onboarding_like(userTags, user, track)
    /\ nOps' = nOps + 1
    /\ last' = [op |-> "onboarding_like", user |-> user, track |-> track, action |-> "LIKE"]
    /\ UNCHANGED <<viewVars, auxVars>>

\* UserTag.objects.recompute_computed(user)
RecomputeComputed(user) ==
    /\ nOps < MaxOps
    /\ userTags' = recompute_computed(userTags, user)
    /\ nOps' = nOps + 1
    /\ last' = [op |-> "recompute", user |-> user, track |-> 0, action |-> "none"]
    /\ UNCHANGED <<viewVars, auxVars>>

\* The tracks Spec feeds to the UserTag writers (0: no track).
SpecTracks == 0 .. 4

Next ==
    \/ \E u \in Users, k \in SpecTracks, a \in Actions : ApplyFeedback(u, k, a)
    \/ \E u \in Users, k \in SpecTracks \ {0} : OnboardingLike(u, k)
    \/ \E u \in Users : RecomputeComputed(u)

Spec == Init /\ [][Next]_vars

--------------------------------------------------------------------------
(* Recommendation builders: services.recomendation *)

\* get_seed_tracks(user, limit).  Its first statement is
\*   OnboardingEvent.objects.filter(...).values("cold_start_track__track_id", flat=True)
\* and QuerySet.values() has no flat option (values_list() has): the keyword is
\* taken for an annotation, True is not an expression, and the call raises
\* TypeError whatever the tables hold.
get_seed_tracks(user, limit) == [exc |-> "TypeError", value |-> <<>>]

\* The tracks of the user's ListeningHistory rows: user 1 has played every
\* track of the catalogue, user 2 nothing.
HeardTracks(user) == IF user = 1 THEN Tracks ELSE {}

\* The candidate ids left after exclusion.  Cold start: the ColdStartTrack
\* tracks minus those the user has an OnboardingEvent for.  Hybrid: the same
\* pool (the TrackSimilarity table is empty) minus the tracks heard.
candidate_ids(ev, user, strategy) ==
    LET pool == { ColdStartTrackOf(c) : c \in ColdStartIds }
        seen_ids == { ColdStartTrackOf(c) : c \in { d \in ColdStartIds : ev[<<user, d>>] # "none" } }
    IN  IF strategy = "COLD_START" THEN pool \ seen_ids ELSE pool \ HeardTracks(user)

\* build_cold_start_recommendation(user): get_user_tag_profile and
\* get_cold_start_candidates read without raising, then get_seed_tracks
\* raises; scoring, apply_artist_diversity and the _save_recommendation call
\* that follow are not reached.
build_cold_start_recommendation(user) ==
    [exc |-> get_seed_tracks(user, 20).exc, strategy |-> "COLD_START"]

\* build_hybrid_recommendation(user): the same up to get_seed_tracks(user, 50).
build_hybrid_recommendation(user) ==
    [exc |-> get_seed_tracks(user, 50).exc, strategy |-> "HYBRID_START"]

\* RecommendationManager.active_for_user(user): a READY, active row of the user.
active_for_user(recs, user) ==
    { r \in DOMAIN recs :
        recs[r].user = user /\ recs[r].status = "READY" /\ recs[r].is_active }

\* get_or_build_recommendation(user, force_rebuild): the active snapshot unless
\* force_rebuild is set or there is none; otherwise strategy detection and the
\* builder of that strategy (warm start uses the hybrid builder).
get_or_build_recommendation(recs, user, force_rebuild, strategy) ==
    IF ~force_rebuild /\ active_for_user(recs, user) # {}
    THEN [exc |-> "none", strategy |-> "none", built |-> FALSE]
    ELSE LET b == IF strategy = "COLD_START"
                  THEN build_cold_start_recommendation(user)
                  ELSE build_hybrid_recommendation(user)
         IN  [exc |-> b.exc, strategy |-> strategy, built |-> TRUE]

--------------------------------------------------------------------------
(* Views: recomendations.views *)

\* Variant of _check_should_rebuild that counts feedback on every item of the
\* snapshot, not only on the top ones.
check_should_rebuild_AnyRank(fb, user, rec) ==
    LET top_count == Cardinality({ i \in Items : ItemRec(i) = rec /\ ItemRank(i) < 5 })
        rated_count == Cardinality({ i \in Items : ItemRec(i) = rec /\ fb[<<user, i>>] # "none" })
    IN  IF top_count = 0 THEN FALSE ELSE rated_count >= top_count

\* Variant of _check_should_rebuild that asks for a rebuild only while the
\* rated items of the snapshot are as many as its top items.
check_should_rebuild_Once(fb, user, rec) ==
    LET top_count == Cardinality({ i \in Items : ItemRec(i) = rec /\ ItemRank(i) < TOP_ITEMS_COUNT })
        rated_count == Cardinality({ i \in Items : ItemRec(i) = rec /\ fb[<<user, i>>] # "none" })
    IN  IF top_count = 0 THEN FALSE ELSE rated_count = top_count

\* RecommendationFeedbackView._check_should_rebuild(user, recommendation)
check_should_rebuild(fb, user, rec) ==
    LET top_qs == { i \in Items : ItemRec(i) = rec /\ ItemRank(i) < TOP_ITEMS_COUNT }
        top_count == Cardinality(top_qs)
        rated_count == Cardinality({ i \in top_qs : fb[<<user, i>>] # "none" })
    IN  IF top_count = 0 THEN FALSE ELSE rated_count >= top_count

\* Variant of update_or_create that leaves an existing row as it is.
update_or_create_KeepFirst(fb, user, item, action) ==
    IF fb[<<user, item>>] = "none"
    THEN [rows |-> [fb EXCEPT ![<<user, item>>] = action], created |-> TRUE]
    ELSE [rows |-> fb, created |-> FALSE]

\* RecommendationFeedback.objects.update_or_create(user=, recommendation_item=,
\* defaults={..., "action": action}): the row of (user, item), unique by
\* uniq_user_rec_item_fb, is created, or its action is overwritten.
update_or_create(fb, user, item, action) ==
    [rows |-> [fb EXCEPT ![<<user, item>>] = action],
     created |-> fb[<<user, item>>] = "none"]

\* RecommendationFeedbackView.post(user, item, action); item 0 does not exist.
FeedbackPost(user, item, action) ==
    /\ nPosts < MaxPosts
    /\ nPosts' = nPosts + 1
    /\ IF item \notin Items
       THEN /\ resp' = [NoResp EXCEPT !.view = "feedback", !.user = user, !.status = 404]
            /\ UNCHANGED <<feedbackRows, userTags, taskQueue>>
       ELSE IF recommendations[ItemRec(item)].user # user
       THEN /\ resp' = [NoResp EXCEPT !.view = "feedback", !.user = user, !.status = 403]
            /\ UNCHANGED <<feedbackRows, userTags, taskQueue>>
       ELSE LET saved == update_or_create(feedbackRows, user, item, action)
                created == saved.created
                fb == saved.rows
                should_rebuild ==
                    IF recommendations[ItemRec(item)].is_active
                    THEN check_should_rebuild(fb, user, ItemRec(item))
                    ELSE FALSE
            IN  /\ feedbackRows' = fb
                /\ userTags' = apply_feedback_to_tags(userTags, user, ItemTrack(item), action)
                /\ taskQueue' = IF should_rebuild
                                THEN Append(taskQueue, [user |-> user, force_rebuild |-> TRUE])
                                ELSE taskQueue
                /\ resp' = [view |-> "feedback", user |-> user, status |-> 200,
                            body |-> IF created THEN "created" ELSE "updated",
                            rebuild_triggered |-> should_rebuild]
    /\ UNCHANGED <<nOps, last, events, onboarding_completed, recommendations, buildLog>>
    /\ UNCHANGED auxVars

\* The loop of OnboardingInteractView.post over the validated events, inside
\* one transaction: st = [ev |-> events table, uts |-> UserTag table].
RECURSIVE OnboardingEventsLoop(_, _, _)
OnboardingEventsLoop(st, user, batch) ==
    IF batch = <<>> THEN st
    ELSE LET e == Head(batch)
             key == <<user, e.cold_start_track_id>>
             liked == [st EXCEPT !.ev[key] = e.action,
                                 !.uts = apply_onboarding_like(
                                            @, user, ColdStartTrackOf(e.cold_start_track_id))]
             stored == [st EXCEPT !.ev[key] = e.action]
             next ==
                IF e.cold_start_track_id \notin ColdStartIds THEN st
                ELSE IF st.ev[key] = "none"
                THEN (IF e.action = "LIKE" THEN liked ELSE stored)
                ELSE IF st.ev[key] # e.action
                THEN (IF e.action = "LIKE" THEN liked ELSE stored)
                ELSE st
         IN  OnboardingEventsLoop(next, user, Tail(batch))

LikesCount(ev, user) ==
    Cardinality({ c \in ColdStartIds : ev[<<user, c>>] = "LIKE" })

\* OnboardingInteractView.post(user, events)
OnboardingPost(user, batch) ==
    /\ nPosts < MaxPosts
    /\ nPosts' = nPosts + 1
    /\ IF onboarding_completed[user]
       THEN /\ resp' = [NoResp EXCEPT !.view = "onboarding", !.user = user, !.status = 200,
                                      !.body = "already_completed"]
            /\ UNCHANGED <<events, userTags, onboarding_completed, taskQueue>>
       ELSE IF batch = <<>>
       THEN /\ resp' = [NoResp EXCEPT !.view = "onboarding", !.user = user, !.status = 400]
            /\ UNCHANGED <<events, userTags, onboarding_completed, taskQueue>>
       ELSE LET st == OnboardingEventsLoop([ev |-> events, uts |-> userTags], user, batch)
                completes == LikesCount(st.ev, user) >= MIN_LIKES_TO_COMPLETE
            IN  /\ events' = st.ev
                /\ onboarding_completed' =
                      IF completes THEN [onboarding_completed EXCEPT ![user] = TRUE]
                      ELSE onboarding_completed
                /\ userTags' = IF completes THEN recompute_computed(st.uts, user) ELSE st.uts
                /\ taskQueue' = IF completes
                                THEN Append(taskQueue, [user |-> user, force_rebuild |-> FALSE])
                                ELSE taskQueue
                /\ resp' = [NoResp EXCEPT !.view = "onboarding", !.user = user, !.status = 200,
                                          !.body = IF completes THEN "onboarding_completed"
                                                   ELSE "needs_more_likes"]
    /\ UNCHANGED <<nOps, last, feedbackRows, recommendations, buildLog>>
    /\ UNCHANGED auxVars

\* RecommendationView.get(user, rebuild): get_or_build_recommendation inline.
RecommendationGet(user, force_rebuild) ==
    /\ nPosts < MaxPosts
    /\ nPosts' = nPosts + 1
    /\ LET r == get_or_build_recommendation(
                    recommendations, user, force_rebuild,
                    detect_strategy(hasSpotify[user], historyCount[user], topItemsCount[user]))
       IN  resp' = IF ~onboarding_completed[user]
                   THEN [NoResp EXCEPT !.view = "recommendation", !.user = user, !.status = 403]
                   ELSE IF r.exc # "none"
                   THEN [NoResp EXCEPT !.view = "recommendation", !.user = user, !.status = 500,
                                       !.body = r.exc]
                   ELSE [NoResp EXCEPT !.view = "recommendation", !.user = user, !.status = 200]
    /\ UNCHANGED <<tagVars, events, onboarding_completed, feedbackRows, recommendations,
                   taskQueue, buildLog>>
    /\ UNCHANGED auxVars

RemoveAt(q, i) == [ j \in 1 .. Len(q) - 1 |-> IF j < i THEN q[j] ELSE q[j + 1] ]

\* A worker runs one queued build_recommendation_task(user_id, force_rebuild).
RunBuildTask(i) ==
    /\ i \in 1 .. Len(taskQueue)
    /\ LET t == taskQueue[i]
           r == get_or_build_recommendation(
                    recommendations, t.user, t.force_rebuild,
                    detect_strategy(hasSpotify[t.user], historyCount[t.user],
                                    topItemsCount[t.user]))
       IN  /\ buildLog' = [user |-> t.user, force_rebuild |-> t.force_rebuild,
                           strategy |-> r.strategy,
                           outcome |-> IF ~r.built THEN "returned_active"
                                       ELSE IF r.exc # "none" THEN r.exc
                                       ELSE "built"]
           /\ taskQueue' = RemoveAt(taskQueue, i)
    /\ UNCHANGED <<tagVars, events, onboarding_completed, feedbackRows, recommendations,
                   resp, nPosts>>
    /\ UNCHANGED auxVars

OnboardingEventInputs ==
    [cold_start_track_id : ColdStartIds \cup {9}, action : OnboardingActions]

\* The batches a client posts: every single event, and pairs of likes.
OnboardingBatches ==
    { <<e>> : e \in OnboardingEventInputs }
      \cup { <<[cold_start_track_id |-> c, action |-> "LIKE"],
               [cold_start_track_id |-> d, action |-> "LIKE"]>> :
             c \in ColdStartIds, d \in ColdStartIds }
      \cup { <<>> }

\* The UserTag table after user u liked cold start tracks 1, 2, 3 in one
\* onboarding request, which completed the onboarding.
OnboardedTags(u) ==
    recompute_computed(
        apply_onboarding_like(
            apply_onboarding_like(
                apply_onboarding_like([k \in UTKeys |-> NoRow], u, ColdStartTrackOf(1)),
                u, ColdStartTrackOf(2)),
            u, ColdStartTrackOf(3)),
        u)

\* User 1 completed onboarding with three likes, has a linked Spotify account
\* and a listening history; snapshot 1's items ranked below n already have
\* SKIP feedback from user 1 (n < TOP_ITEMS_COUNT: no rebuild was triggered
\* yet).  User 2 is new.
InitViews ==
    /\ userTags = OnboardedTags(1)
    /\ nOps = 0
    /\ last = NoCall
    /\ events = [k \in Users \X ColdStartIds |-> IF k[1] = 1 THEN "LIKE" ELSE "none"]
    /\ onboarding_completed = [u \in Users |-> u = 1]
    /\ \E n \in {0, TOP_ITEMS_COUNT - 2, TOP_ITEMS_COUNT - 1} :
          feedbackRows = [k \in Users \X Items |->
                            IF k[1] = 1 /\ ItemRec(k[2]) = 1 /\ ItemRank(k[2]) < n
                            THEN "SKIP" ELSE "none"]
    /\ recommendations = RecommendationRows
    /\ taskQueue = <<>>
    /\ resp = NoResp
    /\ buildLog = NoBuild
    /\ nPosts = 0
    /\ hasSpotify = [u \in Users |-> u = 1]
    /\ historyCount = [u \in Users |-> IF u = 1 THEN HYBRID_MIN_SIGNALS ELSE 0]
    /\ topItemsCount = [u \in Users |-> 0]
    /\ strategyLog = NoStrategy
    /\ DiversityIdle
    /\ ConcIdle
    /\ ScoringIdle
    /\ LocksIdle
    /\ MiscIdle

NextViews ==
    \/ \E u \in Users, i \in Items \cup {0}, a \in Actions : FeedbackPost(u, i, a)
    \/ \E u \in Users, b \in OnboardingBatches : OnboardingPost(u, b)
    \/ \E u \in Users, f \in BOOLEAN : RecommendationGet(u, f)
    \/ \E i \in 1 .. Len(taskQueue) : RunBuildTask(i)

SpecViews == InitViews /\ [][NextViews]_vars

--------------------------------------------------------------------------
(* Claims checked under Spec *)

RowInRange(r) ==
    /\ 0 <= r.weight /\ r.weight <= One
    /\ 0 <= r.confidence /\ r.confidence <= One

\* C1: after any sequence of apply_feedback_to_tags (LIKE, SKIP, DISLIKE),
\* onboarding likes and recompute_computed calls, every UserTag row has
\* 0 <= weight <= 1 and 0 <= confidence <= 1.
C1_WeightsAndConfidenceInRange ==
    \A k \in UTKeys : userTags[k].exists => RowInRange(userTags[k])

\* A user whose feedback weight for "rock" was driven to the floor by
\* dislikes, after the recompute that averaged it into a computed row.
C1_Witness ==
    \E u \in Users :
        /\ userTags[<<u, 1, "feedback">>].exists
        /\ userTags[<<u, 1, "feedback">>].weight = 0
        /\ userTags[<<u, 1, "computed">>].exists
        /\ last.op = "recompute"

\* The step just taken was a call of apply_feedback_to_tags with action a.
FeedbackStep(a) ==
    /\ nOps' = nOps + 1
    /\ last'.op = "feedback"
    /\ last'.action = a

\* C4: apply_feedback_to_tags with SKIP never creates or changes a UserTag row.
C4_SkipChangesNothing ==
    [][FeedbackStep("SKIP") => userTags' = userTags]_vars

\* A SKIP was applied to a track with quality-passing tags for a user who
\* already has a feedback row for one of them.
C4_Witness ==
    /\ last.op = "feedback"
    /\ last.action = "SKIP"
    /\ \E r \in FeedbackTrackTags(last.track) :
          userTags[<<last.user, r.tag, "feedback">>].exists

\* The row the claim of C5 describes, for track-tag weight w and deltas dw, dc
\* (percent): seeded from 0.3*w and 0.4 when new, nudged in place otherwise.
C5_Expected(old, w, dw, dc) ==
    LET lo(x) == IF x < 0 THEN 0 ELSE x
        hi(x) == IF x > One THEN One ELSE x
    IN  IF old.exists
        THEN [old EXCEPT !.weight = lo(hi(old.weight + (dw * w) \div 100)),
                         !.confidence = lo(hi(old.confidence + (dc * w) \div 100))]
        ELSE [exists |-> TRUE,
              weight |-> lo(hi((30 * w) \div 100 + (dw * w) \div 100)),
              confidence |-> lo(hi((40 * One) \div 100 + (dc * w) \div 100)),
              is_active |-> TRUE]

C5_Dw(a) == IF a = "LIKE" THEN 10 ELSE 0 - 15
C5_Dc(a) == IF a = "LIKE" THEN 5 ELSE 0 - 5

\* The keys a feedback call on the track may touch.
C5_Touched(user, track) ==
    { <<user, r.tag, "feedback">> : r \in FeedbackTrackTags(track) }

\* C5 as stated: for every quality-passing active track tag with weight w the
\* (user, tag, "feedback") row is the seeded or nudged row for that w, and all
\* other rows are unchanged.
C5_AsStated ==
    [][\A a \in {"LIKE", "DISLIKE"} :
          FeedbackStep(a) =>
            /\ \A r \in FeedbackTrackTags(last'.track) :
                  userTags'[<<last'.user, r.tag, "feedback">>]
                    = C5_Expected(userTags[<<last'.user, r.tag, "feedback">>],
                                  r.weight, C5_Dw(a), C5_Dc(a))
            /\ \A k \in UTKeys \ C5_Touched(last'.user, last'.track) :
                  userTags'[k] = userTags[k]]_vars

\* The quality-passing active rows of the track for one tag.
C5_RowsOfTag(track, tag) == { r \in FeedbackTrackTags(track) : r.tag = tag }

\* C5 (amended): the same, for every tag that has exactly one quality-passing
\* active TrackTag row on the track; all rows other than the (user, tag,
\* "feedback") rows of the track's quality-passing tags are unchanged.
C5_SingleRowTags ==
    [][\A a \in {"LIKE", "DISLIKE"} :
          FeedbackStep(a) =>
            /\ \A r \in FeedbackTrackTags(last'.track) :
                  Cardinality(C5_RowsOfTag(last'.track, r.tag)) = 1 =>
                    userTags'[<<last'.user, r.tag, "feedback">>]
                      = C5_Expected(userTags[<<last'.user, r.tag, "feedback">>],
                                    r.weight, C5_Dw(a), C5_Dc(a))
            /\ \A k \in UTKeys \ C5_Touched(last'.user, last'.track) :
                  userTags'[k] = userTags[k]]_vars

\* The scenario of the specification: a first LIKE on a track whose tag has
\* weight 0.8 seeds weight 0.32 and confidence 0.44; and a DISLIKE of track 1
\* afterwards has nudged an existing row.
C5_Witness ==
    /\ last.op = "feedback"
    /\ last.action = "DISLIKE"
    /\ last.track = 1
    /\ userTags[<<last.user, 2, "feedback">>]
         = Row(Pct(32) - Pct(12), Pct(44) - Pct(4), TRUE)
    /\ \E k \in UTKeys \ C5_Touched(last.user, 1) : userTags[k].exists

\* The non-computed sources of UserTag rows, in a fixed order.
C17_RawSourceSeq == <<"feedback", "onboarding_track", "onboarding_artist_fallback">>

\* The active non-computed rows of (user, tag).
C17_Inputs(uts, user, tag) ==
    { i \in DOMAIN C17_RawSourceSeq :
        uts[<<user, tag, C17_RawSourceSeq[i]>>].exists
        /\ uts[<<user, tag, C17_RawSourceSeq[i]>>].is_active }

\* m is the arithmetic mean (rounded down to the fixed-point grid) of the
\* values of field over the rows idx of (user, tag).
C17_IsMean(m, uts, user, tag, idx, field) ==
    LET val(i) == IF i \in idx
                  THEN (IF field = "weight" THEN uts[<<user, tag, C17_RawSourceSeq[i]>>].weight
                        ELSE uts[<<user, tag, C17_RawSourceSeq[i]>>].confidence)
                  ELSE 0
        total == val(1) + val(2) + val(3)
        n == Cardinality(idx)
    IN  n * m <= total /\ total < n * (m + 1)

\* C17: a recompute_computed(user) step sets the computed row of every tag
\* with an active non-computed row of the user to the means of weight and
\* confidence over those rows and touches no other row; a second call with
\* no write in between leaves every UserTag row as the first call left it.
C17_RecomputeIsMeanAndIdempotent ==
    [][\A u \in Users : RecomputeComputed(u) =>
          /\ \A t \in Tags :
                LET idx == C17_Inputs(userTags, u, t) IN
                IF idx # {}
                THEN /\ userTags'[<<u, t, "computed">>].exists
                     /\ userTags'[<<u, t, "computed">>].is_active
                     /\ C17_IsMean(userTags'[<<u, t, "computed">>].weight,
                                   userTags, u, t, idx, "weight")
                     /\ C17_IsMean(userTags'[<<u, t, "computed">>].confidence,
                                   userTags, u, t, idx, "confidence")
                ELSE userTags'[<<u, t, "computed">>] = userTags[<<u, t, "computed">>]
          /\ \A key \in UTKeys :
                (key[1] # u \/ key[3] # "computed") => userTags'[key] = userTags[key]
          /\ recompute_computed(userTags', u) = userTags'
          /\ (last.op = "recompute" /\ last.user = u) => userTags' = userTags
    ]_vars

\* A recompute has averaged a tag with two active non-computed rows of
\* different weights, after an earlier operation.
C17_Witness ==
    /\ last.op = "recompute"
    /\ nOps >= 2
    /\ \E t \in Tags :
          /\ Cardinality(C17_Inputs(userTags, last.user, t)) >= 2
          /\ userTags[<<last.user, t, "feedback">>].weight
                # userTags[<<last.user, t, "onboarding_track">>].weight
          /\ userTags[<<last.user, t, "computed">>].exists

--------------------------------------------------------------------------
(* Strategy detection as the Spotify data of a user grows *)

\* The most rows of one table the behaviours give a user.
MaxSignals == 21

\* New plays one recently-played fetch may store, and items one top-items
\* fetch may return.
HistoryBatches == {1, 9}
TopBatches == {0, 1, 10}

\* The Spotify OAuth callback: SpotifyAccount.objects.update_or_create(user=...)
LinkSpotify(u) ==
    /\ ~hasSpotify[u]
    /\ hasSpotify' = [hasSpotify EXCEPT ![u] = TRUE]
    /\ UNCHANGED <<historyCount, topItemsCount, strategyLog>>
    /\ UNCHANGED <<tagVars, viewVars, diversityVars, concVars, scoringVars, lockVars, miscVars>>

\* fetch_recently_played: bulk-creates one ListeningHistory row per new play.
FetchRecentlyPlayed(u, n) ==
    /\ hasSpotify[u]
    /\ historyCount[u] + n <= MaxSignals
    /\ historyCount' = [historyCount EXCEPT ![u] = @ + n]
    /\ UNCHANGED <<hasSpotify, topItemsCount, strategyLog>>
    /\ UNCHANGED <<tagVars, viewVars, diversityVars, concVars, scoringVars, lockVars, miscVars>>

\* fetch_top_items for one (item_type, time_range): deletes the user's rows
\* of that key and bulk-creates the n items of the response.
FetchTopItems(u, n) ==
    /\ hasSpotify[u]
    /\ n <= MaxSignals
    /\ topItemsCount' = [topItemsCount EXCEPT ![u] = n]
    /\ UNCHANGED <<hasSpotify, historyCount, strategyLog>>
    /\ UNCHANGED <<tagVars, viewVars, diversityVars, concVars, scoringVars, lockVars, miscVars>>

\* detect_strategy(user)
DetectStrategy(u) ==
    /\ strategyLog' = [user |-> u,
                       strategy |-> detect_strategy(hasSpotify[u], historyCount[u],
                                                    topItemsCount[u])]
    /\ UNCHANGED <<hasSpotify, historyCount, topItemsCount>>
    /\ UNCHANGED <<tagVars, viewVars, diversityVars, concVars, scoringVars, lockVars, miscVars>>

InitStrategy ==
    /\ userTags = [k \in UTKeys |-> NoRow]
    /\ nOps = 0
    /\ last = NoCall
    /\ ViewsIdle
    /\ AuxIdle

NextStrategy ==
    \/ \E u \in Users : LinkSpotify(u)
    \/ \E u \in Users, n \in HistoryBatches : FetchRecentlyPlayed(u, n)
    \/ \E u \in Users, n \in TopBatches : FetchTopItems(u, n)
    \/ \E u \in Users : DetectStrategy(u)

SpecStrategy == InitStrategy /\ [][NextStrategy]_vars

--------------------------------------------------------------------------
(* Artist diversity: services.recomendation.apply_artist_diversity *)

\* The longest scored list fed to apply_artist_diversity.
MaxLen == 3

\* Track ids of the scored entries: 9 has no Track row.
ScoredTrackIds == {1, 2, 3, 9}

\* (track_id, score) entries; the reason dict plays no part.
ScoredEntries == ScoredTrackIds \X {Pct(90), Pct(50)}

\* apply_artist_diversity(scored_tracks, max_per_artist).  The Track queryset
\* is built with prefetch_related("artist") and read through t.arists, neither
\* of which Track has (its relation is "artists"): iterating it raises
\* AttributeError as soon as it holds one Track.  With no matching Track the
\* artist map is empty, no entry has a main artist and every entry is kept.
apply_artist_diversity(scored, k) ==
    LET tracks == { scored[i][1] : i \in DOMAIN scored } \cap Tracks
    IN  IF tracks # {}
        THEN [exc |-> "AttributeError", value |-> <<>>]
        ELSE [exc |-> "none", value |-> scored]

ApplyArtistDiversity ==
    /\ diversityResult = NoResult
    /\ diversityResult' = apply_artist_diversity(scored_tracks, max_per_artist)
    /\ UNCHANGED <<scored_tracks, max_per_artist>>
    /\ UNCHANGED <<tagVars, viewVars, accountVars, concVars, scoringVars, lockVars, miscVars>>

InitDiversity ==
    /\ userTags = [k \in UTKeys |-> NoRow]
    /\ nOps = 0
    /\ last = NoCall
    /\ ViewsIdle
    /\ AccountsIdle
    /\ ConcIdle
    /\ ScoringIdle
    /\ LocksIdle
    /\ MiscIdle
    /\ \E n \in 0 .. MaxLen : scored_tracks \in [1 .. n -> ScoredEntries]
    /\ max_per_artist \in 1 .. 2
    /\ diversityResult = NoResult

NextDiversity == ApplyArtistDiversity

SpecDiversity == InitDiversity /\ [][NextDiversity]_vars

--------------------------------------------------------------------------
(* Two apply_feedback_to_tags calls of one user on separate connections.
   The database is the configured SQLite file: the atomic block of the call
   is a deferred transaction, whose first SELECT takes the SHARED lock and
   whose first INSERT or UPDATE takes the RESERVED lock; a connection that
   holds SHARED and finds RESERVED taken gets "database is locked" at once,
   and COMMIT waits until no other connection holds SHARED. *)

ConcUser == 1

\* The UserTag tables the two calls may start from.
ConcTables ==
    { [k \in UTKeys |-> NoRow],
      apply_feedback_to_tags([k \in UTKeys |-> NoRow], ConcUser, 1, "LIKE"),
      apply_feedback_to_tags([k \in UTKeys |-> NoRow], ConcUser, 2, "DISLIKE") }

\* The (track, action) pairs of the two calls.
ConcCalls == [track : 1 .. 3, action : Actions]

\* The rows connection p sees: its own uncommitted writes over the file.
Visible(p, tag) ==
    IF uncommitted[p][tag].exists THEN uncommitted[p][tag]
    ELSE userTags[<<ConcUser, tag, "feedback">>]

\* The call up to its loop, inside the atomic block the decorator opens: the
\* early return on zero deltas, then the TrackTag query, the transaction's
\* first SELECT, which takes SHARED; without rows the call returns and the
\* empty transaction commits.
ConcEnter(p) ==
    /\ pc[p] = "start"
    /\ LET track_tags == ByWeightDesc(FeedbackTrackTags(call[p].track))
       IN  IF (WEIGHT_DELTAS(call[p].action) = 0 /\ CONFIDENCE_DELTAS(call[p].action) = 0)
              \/ track_tags = <<>>
           THEN /\ pc' = [pc EXCEPT ![p] = "done"]
                /\ UNCHANGED <<todo, readers>>
           ELSE /\ pc' = [pc EXCEPT ![p] = "select"]
                /\ todo' = [todo EXCEPT ![p] = track_tags]
                /\ readers' = readers \cup {p}
    /\ UNCHANGED <<call, seen, uncommitted, writer, committedBefore>>
    /\ UNCHANGED <<tagVars, viewVars, accountVars, diversityVars, scoringVars, lockVars, miscVars>>

\* The SELECT of get_or_create for the next tag.
ConcSelect(p) ==
    /\ pc[p] = "select"
    /\ seen' = [seen EXCEPT ![p] = Visible(p, Head(todo[p]).tag)]
    /\ pc' = [pc EXCEPT ![p] = "save"]
    /\ UNCHANGED <<call, todo, uncommitted, readers, writer, committedBefore>>
    /\ UNCHANGED <<tagVars, viewVars, accountVars, diversityVars, scoringVars, lockVars, miscVars>>

\* The INSERT of get_or_create, or the UPDATE of user_tag.save(): computed
\* from the row the SELECT returned.  With RESERVED held by the other
\* connection the statement raises OperationalError, the atomic block rolls
\* back and the call ends with the exception.
ConcSave(p) ==
    /\ pc[p] = "save"
    /\ IF writer \notin {0, p}
       THEN /\ pc' = [pc EXCEPT ![p] = "failed"]
            /\ readers' = readers \ {p}
            /\ UNCHANGED <<todo, uncommitted, writer>>
       ELSE /\ writer' = p
            /\ uncommitted' = [uncommitted EXCEPT ![p][Head(todo[p]).tag] =
                                 FeedbackUpsert(seen[p], Head(todo[p]).weight, call[p].action)]
            /\ todo' = [todo EXCEPT ![p] = Tail(@)]
            /\ pc' = [pc EXCEPT ![p] = IF Tail(todo[p]) = <<>> THEN "commit" ELSE "select"]
            /\ UNCHANGED readers
    /\ UNCHANGED <<call, seen, committedBefore>>
    /\ UNCHANGED <<tagVars, viewVars, accountVars, diversityVars, scoringVars, lockVars, miscVars>>

\* Leaving the atomic block: COMMIT, once no other connection holds SHARED.
ConcCommit(p) ==
    /\ pc[p] = "commit"
    /\ readers \subseteq {p}
    /\ userTags' = [k \in UTKeys |->
                      IF k[1] = ConcUser /\ k[3] = "feedback" /\ uncommitted[p][k[2]].exists
                      THEN uncommitted[p][k[2]] ELSE userTags[k]]
    /\ uncommitted' = [uncommitted EXCEPT ![p] = [t \in Tags |-> NoRow]]
    /\ writer' = 0
    /\ readers' = readers \ {p}
    /\ pc' = [pc EXCEPT ![p] = "done"]
    /\ UNCHANGED <<nOps, last, call, todo, seen, committedBefore>>
    /\ UNCHANGED <<viewVars, accountVars, diversityVars, scoringVars, lockVars, miscVars>>

\* COMMIT gives up waiting for the other connection's SHARED lock (the
\* connection's busy timeout): OperationalError, the block rolls back.
ConcCommitTimeout(p) ==
    /\ pc[p] = "commit"
    /\ ~(readers \subseteq {p})
    /\ uncommitted' = [uncommitted EXCEPT ![p] = [t \in Tags |-> NoRow]]
    /\ writer' = 0
    /\ readers' = readers \ {p}
    /\ pc' = [pc EXCEPT ![p] = "failed"]
    /\ UNCHANGED <<call, todo, seen, committedBefore>>
    /\ UNCHANGED <<tagVars, viewVars, accountVars, diversityVars, scoringVars, lockVars, miscVars>>

InitConc ==
    /\ userTags \in ConcTables
    /\ committedBefore = userTags
    /\ nOps = 0
    /\ last = NoCall
    /\ ViewsIdle
    /\ AccountsIdle
    /\ DiversityIdle
    /\ ScoringIdle
    /\ LocksIdle
    /\ MiscIdle
    /\ call \in [Procs -> ConcCalls]
    /\ pc = [p \in Procs |-> "start"]
    /\ todo = [p \in Procs |-> <<>>]
    /\ seen = [p \in Procs |-> NoRow]
    /\ uncommitted = [p \in Procs |-> [t \in Tags |-> NoRow]]
    /\ readers = {}
    /\ writer = 0

NextConc ==
    \/ \E p \in Procs : ConcEnter(p)
    \/ \E p \in Procs : ConcSelect(p)
    \/ \E p \in Procs : ConcSave(p)
    \/ \E p \in Procs : ConcCommit(p)
    \/ \E p \in Procs : ConcCommitTimeout(p)

SpecConc == InitConc /\ [][NextConc]_vars

--------------------------------------------------------------------------
(* Scoring: the functions of services.recomendation the builders call,
   applied to candidate lists and to profiles of reachable UserTag tables *)

\* The keys of a dict and its get(key, 0).
Keys(m) == DOMAIN m
Get(m, k) == IF k \in DOMAIN m THEN m[k] ELSE 0

RECURSIVE SumOver(_, _)
SumOver(f, S) ==
    IF S = {} THEN 0
    ELSE LET x == CHOOSE y \in S : TRUE IN f[x] + SumOver(f, S \ {x})

RECURSIVE MaxOver(_, _)
MaxOver(f, S) ==
    IF S = {} THEN 0
    ELSE LET x == CHOOSE y \in S : TRUE
             m == MaxOver(f, S \ {x})
         IN  IF f[x] > m THEN f[x] ELSE m

\* score_tracks_by_tags(track_ids, user_tag_profile).  The query takes every
\* active TrackTag row of the tracks; a row counts when the profile has a
\* positive score for its tag, and its product is added to scores[tt["tag_id"]]:
\* the dict is keyed by tag id.  The values are then divided by their maximum.
score_tracks_by_tags(ids, profile) ==
    IF Keys(profile) = {} THEN EmptyMap
    ELSE LET tracks_tag == { r \in TrackTagRows : r.track \in SeqRange(ids) /\ r.is_active }
             counted == { r \in tracks_tag : Get(profile, r.tag) > 0 }
             product == [r \in counted |-> Mul(profile[r.tag], r.weight)]
             scores == [t \in { r.tag : r \in counted } |->
                          SumOver(product, { r \in counted : r.tag = t })]
             max_score == MaxOver(scores, DOMAIN scores)
         IN  IF DOMAIN scores = {} THEN EmptyMap
             ELSE IF max_score > 0
                  THEN [t \in DOMAIN scores |-> (scores[t] * One) \div max_score]
                  ELSE scores

\* The user whose profile is scored.
ScoringUser == 1

\* The TrackSimilarity table.
TrackSimilarityRows ==
    { [from_track |-> 1, to_track |-> 2, score |-> Pct(50)],
      [from_track |-> 3, to_track |-> 2, score |-> Pct(90)],
      [from_track |-> 1, to_track |-> 3, score |-> Pct(50)] }

\* The popularity map the scoring loops read with candidates.get(track_id, 0):
\* track 3 has no entry.
PopularityScores == (1 :> Pct(50)) @@ (2 :> Pct(90))

\* The UserTopItem tables of the user: fetch_top_items stores a top track
\* with item_type "track" and a top artist with item_type "artist" (track 0:
\* no track).
TopItemTables ==
    { {},
      { [item_type |-> "track", track |-> 2], [item_type |-> "artist", track |-> 0] } }

\* The OnboardingEvent tables of the scoring calls: none, or the user liked
\* cold start track 1 and rejected cold start track 2.
OnboardingTables ==
    { [k \in Users \X ColdStartIds |-> "none"],
      [k \in Users \X ColdStartIds |->
          IF k = <<ScoringUser, 1>> THEN "LIKE"
          ELSE IF k = <<ScoringUser, 2>> THEN "NOT_MY_STYLE" ELSE "none"] }

\* The seed lists of the similarity scoring.
SeedLists == {<<>>, <<1>>, <<1, 3>>}

\* The candidate ids of the scoring calls.
ScoringTracks == 1 .. 3

\* The tables one writer call makes of table t.
WriterCalls(t) ==
    { apply_feedback_to_tags(t, ScoringUser, k, a) : k \in ScoringTracks, a \in {"LIKE", "DISLIKE"} }
        \cup { apply_onboarding_like(t, ScoringUser, k) : k \in ScoringTracks }
        \cup { recompute_computed(t, ScoringUser) }

\* The UserTag tables up to two writer calls away from the empty one.
ScoringTables ==
    LET T1 == {[k \in UTKeys |-> NoRow]} \cup WriterCalls([k \in UTKeys |-> NoRow])
    IN  T1 \cup UNION { WriterCalls(t) : t \in T1 }

\* Lists of distinct candidate ids.
CandidateLists ==
    UNION { { q \in [1 .. n -> ScoringTracks] : \A i, j \in 1 .. n : i # j => q[i] # q[j] } :
            n \in 0 .. Cardinality(ScoringTracks) }

ScoreTracksByTags ==
    /\ returned' = [fn |-> "score_tracks_by_tags", exc |-> "none",
                    value |-> score_tracks_by_tags(track_ids, user_tag_profile)]
    /\ UNCHANGED <<track_ids, user_tag_profile, seed_tracks_ids, listening_history, top_items>>
    /\ UNCHANGED <<tagVars, viewVars, accountVars, diversityVars, concVars, lockVars, miscVars>>

\* score_tracks_by_similarity(seed_tracks_ids, candidate_ids): the mean score
\* of the TrackSimilarity rows from a seed to each candidate.
score_tracks_by_similarity(seeds, ids) ==
    IF seeds = <<>> \/ ids = <<>> THEN EmptyMap
    ELSE LET similarities == { r \in TrackSimilarityRows :
                                 r.from_track \in SeqRange(seeds) /\ r.to_track \in SeqRange(ids) }
             score == [r \in similarities |-> r.score]
         IN  [t \in { r.to_track : r \in similarities } |->
                SumOver(score, { r \in similarities : r.to_track = t })
                  \div Cardinality({ r \in similarities : r.to_track = t })]

\* scored.sort(key=lambda x: x[1], reverse=True): stable, best score first.
RECURSIVE SortByScore(_)
SortByScore(scored) ==
    IF scored = <<>> THEN <<>>
    ELSE LET i == CHOOSE j \in DOMAIN scored :
                    /\ \A k \in DOMAIN scored : scored[k].final_score <= scored[j].final_score
                    /\ \A k \in 1 .. (j - 1) : scored[k].final_score < scored[j].final_score
         IN  <<scored[i]>> \o SortByScore(SubSeq(scored, 1, i - 1) \o SubSeq(scored, i + 1, Len(scored)))

\* The scoring loop of build_cold_start_recommendation and the sort after it:
\* one entry per candidate, a signal missing from its map counting 0.
RECURSIVE cold_start_loop(_, _, _, _, _)
cold_start_loop(ids, candidates, tag_scores, sim_scores, user_tags) ==
    IF ids = <<>> THEN <<>>
    ELSE LET track_id == Head(ids)
             cs_score == Get(candidates, track_id)
             tag_score == Get(tag_scores, track_id)
             sim_score == Get(sim_scores, track_id)
             final_score == IF Keys(user_tags) # {}
                            THEN Mul(cs_score, Pct(30)) + Mul(tag_score, Pct(50))
                                   + Mul(sim_score, Pct(20))
                            ELSE cs_score
         IN  <<[track_id |-> track_id, final_score |-> final_score]>>
               \o cold_start_loop(Tail(ids), candidates, tag_scores, sim_scores, user_tags)

cold_start_scored(ids, candidates, tag_scores, sim_scores, user_tags) ==
    [exc |-> "none",
     value |-> SortByScore(cold_start_loop(ids, candidates, tag_scores, sim_scores, user_tags))]

\* The scoring loop of build_hybrid_recommendation and the sort after it.  The
\* loop body only reads the three signals; final_score, reason and
\* scored.append are dedented out of the loop and run once, with the values
\* the last iteration left.  With no candidate the names are unbound.
hybrid_scored(ids, candidates, tag_scores, sim_scores) ==
    IF ids = <<>> THEN [exc |-> "UnboundLocalError", value |-> <<>>]
    ELSE LET track_id == ids[Len(ids)]
             cs_score == Get(candidates, track_id)
             tag_score == Get(tag_scores, track_id)
             sim_score == Get(sim_scores, track_id)
             final_score == Mul(cs_score, Pct(20)) + Mul(tag_score, Pct(40))
                              + Mul(sim_score, Pct(40))
         IN  [exc |-> "none",
              value |-> SortByScore(<<[track_id |-> track_id, final_score |-> final_score]>>)]

ColdStartLoop ==
    /\ returned' = [fn |-> "cold_start_loop"] @@
                    cold_start_scored(track_ids, PopularityScores,
                                      score_tracks_by_tags(track_ids, user_tag_profile),
                                      score_tracks_by_similarity(seed_tracks_ids, track_ids),
                                      user_tag_profile)
    /\ UNCHANGED <<track_ids, user_tag_profile, seed_tracks_ids, listening_history, top_items>>
    /\ UNCHANGED <<tagVars, viewVars, accountVars, diversityVars, concVars, lockVars, miscVars>>

HybridLoop ==
    /\ returned' = [fn |-> "hybrid_loop"] @@
                    hybrid_scored(track_ids, PopularityScores,
                                  score_tracks_by_tags(track_ids, user_tag_profile),
                                  score_tracks_by_similarity(seed_tracks_ids, track_ids))
    /\ UNCHANGED <<track_ids, user_tag_profile, seed_tracks_ids, listening_history, top_items>>
    /\ UNCHANGED <<tagVars, viewVars, accountVars, diversityVars, concVars, lockVars, miscVars>>

\* A Python list without the members of a set, in list order.
RECURSIVE Without(_, _)
Without(ids, excluded) ==
    IF ids = <<>> THEN <<>>
    ELSE (IF Head(ids) \in excluded THEN <<>> ELSE <<Head(ids)>>) \o Without(Tail(ids), excluded)

\* build_cold_start_recommendation: seen_ids are the tracks of every
\* OnboardingEvent of the user, whatever the action.
cold_start_candidate_ids(ids, ev, user) ==
    LET seen_ids == { ColdStartTrackOf(c) : c \in { d \in ColdStartIds : ev[<<user, d>>] # "none" } }
    IN  Without(ids, seen_ids)

\* build_hybrid_recommendation: heard_ids are the ListeningHistory tracks and
\* the tracks of the UserTopItem rows with item_type = "tracks".
hybrid_candidate_ids(all_candidate_ids, history, items) ==
    LET heard_ids == history \cup { r.track : r \in { x \in items : x.item_type = "tracks" } }
    IN  Without(all_candidate_ids, heard_ids)

ColdStartExclusion ==
    /\ returned' = [fn |-> "cold_start_candidate_ids", exc |-> "none",
                    value |-> cold_start_candidate_ids(track_ids, events, ScoringUser)]
    /\ UNCHANGED <<track_ids, user_tag_profile, seed_tracks_ids, listening_history, top_items>>
    /\ UNCHANGED <<tagVars, viewVars, accountVars, diversityVars, concVars, lockVars, miscVars>>

HybridExclusion ==
    /\ returned' = [fn |-> "hybrid_candidate_ids", exc |-> "none",
                    value |-> hybrid_candidate_ids(track_ids, listening_history, top_items)]
    /\ UNCHANGED <<track_ids, user_tag_profile, seed_tracks_ids, listening_history, top_items>>
    /\ UNCHANGED <<tagVars, viewVars, accountVars, diversityVars, concVars, lockVars, miscVars>>

IsValidTag ==
    /\ \E t \in Tags :
          returned' = [fn |-> "is_valid_tag", exc |-> "none",
                       value |-> [tag |-> t, valid |-> is_valid_tag(t)]]
    /\ UNCHANGED <<track_ids, user_tag_profile, seed_tracks_ids, listening_history, top_items>>
    /\ UNCHANGED <<tagVars, viewVars, accountVars, diversityVars, concVars, lockVars, miscVars>>

InitScoring ==
    /\ userTags \in ScoringTables
    /\ nOps = 0
    /\ last = NoCall
    /\ events \in OnboardingTables
    /\ onboarding_completed = [u \in Users |-> FALSE]
    /\ feedbackRows = [k \in Users \X Items |-> "none"]
    /\ recommendations = RecommendationRows
    /\ taskQueue = <<>>
    /\ resp = NoResp
    /\ buildLog = NoBuild
    /\ nPosts = 0
    /\ AccountsIdle
    /\ DiversityIdle
    /\ ConcIdle
    /\ LocksIdle
    /\ MiscIdle
    /\ track_ids \in CandidateLists
    /\ user_tag_profile = get_user_tag_profile(userTags, ScoringUser)
    /\ seed_tracks_ids \in SeedLists
    /\ listening_history \in {{}, {1}}
    /\ top_items \in TopItemTables
    /\ returned = NotCalled

NextScoring ==
    \/ ScoreTracksByTags
    \/ ColdStartLoop
    \/ HybridLoop
    \/ ColdStartExclusion
    \/ HybridExclusion
    \/ IsValidTag

SpecScoring == InitScoring /\ [][NextScoring]_vars

--------------------------------------------------------------------------
(* Resource locks: utils.locks, and the tasks that are to run under one *)

\* ResourceLock.key: f'{resource_type}_lock:{resource_id}', one key per
\* (resource_type, resource_id).
LockKey(resource_type, resource_id) == <<resource_type, resource_id>>

\* ResourceLock.acquire().  The module binds the name time with
\* "from datetime import time", so building lock_value evaluates
\* datetime.time.time(), which raises AttributeError (the class has no such
\* attribute) before cache.add is called: the cache is left as it is.
acquire(c, key) ==
    [exc |-> "AttributeError", value |-> FALSE, cache |-> c]

\* ResourceLock.release(): cache.delete(key).
release(c, key) == c \ {key}

\* ResourceLock.__enter__(): an exception of acquire() propagates, a false
\* result raises ResourceLockedException.
enter(c, key) ==
    LET a == acquire(c, key)
    IN  IF a.exc # "none" THEN [exc |-> a.exc, cache |-> a.cache]
        ELSE IF ~a.value THEN [exc |-> "ResourceLockedException", cache |-> a.cache]
        ELSE [exc |-> "none", cache |-> a.cache]

\* ColdTest.get -> cold_start_refresh_all: one execution of each source's
\* fetch task is enqueued.
ColdStartRefreshAll ==
    /\ \E s \in Executions, l \in Executions :
          /\ refreshTasks[<<"spotify_global", s>>].pc = "idle"
          /\ refreshTasks[<<"lastfm_global", l>>].pc = "idle"
          /\ refreshTasks' = [refreshTasks EXCEPT
                                ![<<"spotify_global", s>>].pc = "queued",
                                ![<<"lastfm_global", l>>].pc = "queued"]
    /\ UNCHANGED <<cache, buildTasks>>
    /\ UNCHANGED <<tagVars, viewVars, accountVars, diversityVars, concVars, scoringVars, miscVars>>

\* A worker starts cold_start_fetch_spotify_global / cold_start_fetch_lastfm_global:
\* lock = ResourceLock("cold_start_source", <source>, timeout=...).
RefreshStart(j) ==
    /\ refreshTasks[j].pc = "queued"
    /\ refreshTasks' = [refreshTasks EXCEPT ![j].pc = "started"]
    /\ UNCHANGED <<cache, buildTasks>>
    /\ UNCHANGED <<tagVars, viewVars, accountVars, diversityVars, concVars, scoringVars, miscVars>>

\* "with lock:" inside the task's try.  ResourceLockedException is caught and
\* the task returns "skipped (locked)"; any other exception of __enter__
\* leaves the task (autoretry_for covers requests.RequestException only, so
\* no retry is scheduled) and __exit__ is not run; with the lock acquired the
\* execution goes on to the body.
RefreshEnter(j) ==
    /\ refreshTasks[j].pc = "started"
    /\ LET e == enter(cache, LockKey("cold_start_source", j[1]))
       IN  /\ cache' = e.cache
           /\ refreshTasks' = [refreshTasks EXCEPT ![j] =
                 IF e.exc = "none"
                 THEN [pc |-> "working", raised |-> "none", value |-> "none"]
                 ELSE IF e.exc = "ResourceLockedException"
                 THEN [pc |-> "done", raised |-> "none", value |-> "skipped (locked)"]
                 ELSE [pc |-> "done", raised |-> e.exc, value |-> "none"]]
    /\ UNCHANGED buildTasks
    /\ UNCHANGED <<tagVars, viewVars, accountVars, diversityVars, concVars, scoringVars, miscVars>>

\* build_recommendation_task.delay(user.id) after onboarding completion, or
\* build_recommendation_task.delay(user.id, force_rebuild=True) after feedback.
EnqueueBuild(user, force_rebuild) ==
    /\ \E e \in Executions :
          /\ buildTasks[e].pc = "idle"
          /\ buildTasks' = [buildTasks EXCEPT ![e] =
                               [pc |-> "queued", user |-> user,
                                force_rebuild |-> force_rebuild, raised |-> "none"]]
    /\ UNCHANGED <<cache, refreshTasks>>
    /\ UNCHANGED <<tagVars, viewVars, accountVars, diversityVars, concVars, scoringVars, miscVars>>

\* A worker starts build_recommendation_task: it loads the user and calls
\* get_or_build_recommendation; no lock is looked up or taken.
BuildStart(e) ==
    /\ buildTasks[e].pc = "queued"
    /\ buildTasks' = [buildTasks EXCEPT ![e].pc = "building"]
    /\ UNCHANGED <<cache, refreshTasks>>
    /\ UNCHANGED <<tagVars, viewVars, accountVars, diversityVars, concVars, scoringVars, miscVars>>

\* get_or_build_recommendation returns or raises, and the task ends.
BuildEnd(e) ==
    /\ buildTasks[e].pc = "building"
    /\ LET t == buildTasks[e]
           r == get_or_build_recommendation(
                    recommendations, t.user, t.force_rebuild,
                    detect_strategy(hasSpotify[t.user], historyCount[t.user],
                                    topItemsCount[t.user]))
       IN  buildTasks' = [buildTasks EXCEPT ![e].pc = "done", ![e].raised = r.exc]
    /\ UNCHANGED <<cache, refreshTasks>>
    /\ UNCHANGED <<tagVars, viewVars, accountVars, diversityVars, concVars, scoringVars, miscVars>>

InitLocks ==
    /\ userTags = [k \in UTKeys |-> NoRow]
    /\ nOps = 0
    /\ last = NoCall
    /\ ViewsIdle
    /\ AccountsIdle
    /\ DiversityIdle
    /\ ConcIdle
    /\ ScoringIdle
    /\ LocksIdle
    /\ MiscIdle

NextLocks ==
    \/ ColdStartRefreshAll
    \/ \E j \in RefreshJobs : RefreshStart(j)
    \/ \E j \in RefreshJobs : RefreshEnter(j)
    \/ \E u \in Users, f \in BOOLEAN : EnqueueBuild(u, f)
    \/ \E e \in Executions : BuildStart(e)
    \/ \E e \in Executions : BuildEnd(e)

SpecLocks == InitLocks /\ [][NextLocks]_vars

--------------------------------------------------------------------------
(* RecommendationItem rows: recomendations.models.recommendation_item *)

\* The items a caller may try to create in snapshot 1: a type, a track or 0
\* (None), an artist or 0 (None).
ItemInputs == [type : {"TRACK", "ARTIST"}, track : 0 .. 2, artist : 0 .. 1]

\* RecommendationItem.clean(): the exception it raises, if any.
clean(item) ==
    IF item.type = "TRACK" /\ item.track = 0 THEN "ValueError"
    ELSE IF item.type = "ARTIST" /\ item.artist = 0 THEN "ValueError"
    ELSE "none"

\* Meta.constraints: the two conditional unique constraints, the only
\* constraints of the table (track and artist are both nullable).
unique_violated(rows, item) ==
    \/ item.track # 0 /\ \E i \in DOMAIN rows : rows[i].track = item.track
    \/ item.artist # 0 /\ \E i \in DOMAIN rows : rows[i].artist = item.artist

\* RecommendationItem.objects.create(recommendation=1, **item): Model.save()
\* inserts the row; it does not call clean().
CreateItem(item) ==
    /\ Len(itemRows) < MaxItems
    /\ IF unique_violated(itemRows, item)
       THEN /\ itemResult' = [item |-> item, path |-> "create", exc |-> "IntegrityError",
                              saved |-> FALSE]
            /\ UNCHANGED itemRows
       ELSE /\ itemResult' = [item |-> item, path |-> "create", exc |-> "none", saved |-> TRUE]
            /\ itemRows' = Append(itemRows, item)
    /\ UNCHANGED <<coreVars, tagRow, userVars, poolVars>>

\* item.full_clean() followed by item.save(): clean() runs first and its
\* ValueError leaves the call; the unique constraints are then validated.
FullCleanAndSave(item) ==
    /\ Len(itemRows) < MaxItems
    /\ IF clean(item) # "none"
       THEN /\ itemResult' = [item |-> item, path |-> "full_clean", exc |-> clean(item),
                              saved |-> FALSE]
            /\ UNCHANGED itemRows
       ELSE IF unique_violated(itemRows, item)
       THEN /\ itemResult' = [item |-> item, path |-> "full_clean", exc |-> "ValidationError",
                              saved |-> FALSE]
            /\ UNCHANGED itemRows
       ELSE /\ itemResult' = [item |-> item, path |-> "full_clean", exc |-> "none",
                              saved |-> TRUE]
            /\ itemRows' = Append(itemRows, item)
    /\ UNCHANGED <<coreVars, tagRow, userVars, poolVars>>

InitItems ==
    /\ userTags = [k \in UTKeys |-> NoRow]
    /\ nOps = 0
    /\ last = NoCall
    /\ ViewsIdle
    /\ AuxIdle

NextItems ==
    \/ \E item \in ItemInputs : CreateItem(item)
    \/ \E item \in ItemInputs : FullCleanAndSave(item)

SpecItems == InitItems /\ [][NextItems]_vars

--------------------------------------------------------------------------
(* Tag names: music.models.tag *)

\* The characters of tag names: a lower case letter, an upper case letter, a
\* hyphen and a space.  A string is the sequence of its characters.
Chars == {"a", "A", "-", " "}

Strings == UNION { [1 .. n -> Chars] : n \in 0 .. MaxStr }

\* str.lower()
lower(x) == [i \in DOMAIN x |-> IF x[i] = "A" THEN "a" ELSE x[i]]

\* str.strip(): leading and trailing whitespace removed.
RECURSIVE lstrip(_)
lstrip(x) == IF x # <<>> /\ Head(x) = " " THEN lstrip(Tail(x)) ELSE x

RECURSIVE rstrip(_)
rstrip(x) ==
    IF x # <<>> /\ x[Len(x)] = " " THEN rstrip(SubSeq(x, 1, Len(x) - 1)) ELSE x

strip(x) == rstrip(lstrip(x))

\* str.replace('-', ' ')
replace_hyphens(x) == [i \in DOMAIN x |-> IF x[i] = "-" THEN " " ELSE x[i]]

\* Tag.normalize(tag_name): tag_name.lower().strip().replace('-', ' ')
normalize(tag_name) == replace_hyphens(strip(lower(tag_name)))

\* Tag.save(): normalized_name = normalize(name), then the row is written.
TagSave ==
    /\ ~tagRow.saved
    /\ tagRow' = [tagRow EXCEPT !.normalized_name = normalize(tagRow.name), !.saved = TRUE]
    /\ UNCHANGED <<coreVars, itemVars, userVars, poolVars>>

InitTagNames ==
    /\ userTags = [k \in UTKeys |-> NoRow]
    /\ nOps = 0
    /\ last = NoCall
    /\ ViewsIdle
    /\ AccountsIdle
    /\ DiversityIdle
    /\ ConcIdle
    /\ ScoringIdle
    /\ LocksIdle
    /\ ItemsIdle
    /\ UsersIdle
    /\ PoolsIdle
    /\ \E x \in Strings : tagRow = [name |-> x, normalized_name |-> <<>>, saved |-> FALSE]

NextTagNames == TagSave

SpecTagNames == InitTagNames /\ [][NextTagNames]_vars

--------------------------------------------------------------------------
(* User creation: users.models.MyUserManager *)

\* The email arguments of the calls: None, the empty string, an address
\* without a top level domain, and three well-formed addresses of which the
\* first two differ in the case of the domain only.
EmailInputs ==
    {"<None>", "", "asd123@onetpl", "Tomek@ONET.pl", "Tomek@onet.pl", "asd123@onet.pl"}

\* The password arguments of the calls: None, the empty string, two passwords.
PasswordInputs == {"<None>", "", "pw-one", "pw-two"}

\* not email / not password: None and the empty string are falsy.
falsy(x) == x \in {"<None>", ""}

\* Variant of validate_email that accepts every address.
validate_email_Any(email) == "none"

\* django.core.validators.validate_email on the addresses above: the domain
\* must end in a top level domain.
validate_email(email) ==
    IF email \in {"Tomek@ONET.pl", "Tomek@onet.pl", "asd123@onet.pl"}
    THEN "none" ELSE "ValidationError"

\* BaseUserManager.normalize_email: the domain part is lower-cased.
normalize_email(email) ==
    IF email = "Tomek@ONET.pl" THEN "Tomek@onet.pl" ELSE email

\* AbstractBaseUser.set_password / check_password: the stored value is a
\* salted hash of the raw password, and a raw password verifies exactly
\* against its own hash.
make_password(raw) == <<"hash", raw>>

check_password(row, raw) == row.password = make_password(raw)

\* MyUserManager.create_user(email, password) -> _create_user: is_active is
\* defaulted to True, is_staff keeps the field default False; user.save()
\* fails with IntegrityError on a used email (unique=True).
create_user(rows, email, password) ==
    IF falsy(email) THEN [exc |-> "ValueError", rows |-> rows]
    ELSE IF falsy(password) THEN [exc |-> "ValueError", rows |-> rows]
    ELSE IF validate_email(email) # "none" THEN [exc |-> "ValueError", rows |-> rows]
    ELSE LET user == [email |-> normalize_email(email), password |-> make_password(password),
                      is_active |-> TRUE, is_staff |-> FALSE]
         IN  IF \E i \in DOMAIN rows : rows[i].email = user.email
             THEN [exc |-> "IntegrityError", rows |-> rows]
             ELSE [exc |-> "none", rows |-> Append(rows, user)]

CreateUser(email, password) ==
    /\ Len(userRows) < MaxUsers
    /\ LET r == create_user(userRows, email, password)
       IN  /\ userRows' = r.rows
           /\ userResult' = [email |-> email, password |-> password, exc |-> r.exc]
    /\ UNCHANGED <<coreVars, itemVars, tagRow, poolVars>>

InitUsers ==
    /\ userTags = [k \in UTKeys |-> NoRow]
    /\ nOps = 0
    /\ last = NoCall
    /\ ViewsIdle
    /\ AuxIdle

NextUsers == \E email \in EmailInputs, password \in PasswordInputs : CreateUser(email, password)

SpecUsers == InitUsers /\ [][NextUsers]_vars

--------------------------------------------------------------------------
(* Candidate pool and seed tracks: services.recomendation *)

\* ColdStartTrack rows: a track, a source and a score; (track, source) is
\* unique.
ColdStartRowUniverse ==
    [track : 1 .. 2, source : {"SPOTIFY_GLOBAL", "LASTFM_GLOBAL"}, score : {Pct(50), Pct(90)}]

ColdStartTables ==
    { T \in SUBSET ColdStartRowUniverse :
        /\ Cardinality(T) <= MaxColdStartRows
        /\ \A r, q \in T : (r.track = q.track /\ r.source = q.source) => r = q }

\* Python values: a str, or a number (track ids, fixed-point scores).
PyStr(s) == [type |-> "str", s |-> s, n |-> 0]
PyNum(n) == [type |-> "num", s |-> "", n |-> n]

\* ColdStartTrack.objects.values("track_id").annotate(best_score=Max("score")):
\* one dict {"track_id": t, "best_score": m} for every track with a row.
best_score_rows(rows) ==
    { [track_id |-> t,
       best_score |-> CHOOSE m \in { r.score : r \in { q \in rows : q.track = t } } :
                         \A r \in rows : r.track = t => r.score <= m]
      : t \in { r.track : r \in rows } }

\* get_cold_start_candidates(): dict(<that queryset>).  dict() takes every
\* element of its argument as a (key, value) pair; an element here is a dict
\* of two keys, and iterating a dict yields its keys, so every element
\* contributes the pair ("track_id", "best_score").  A dict is modelled as the
\* set of its (key, value) pairs.
get_cold_start_candidates(rows) ==
    { <<PyStr("track_id"), PyStr("best_score")>> : d \in best_score_rows(rows) }

GetColdStartCandidates ==
    /\ poolResult' = [fn |-> "get_cold_start_candidates", limit |-> 0, exc |-> "none",
                      value |-> get_cold_start_candidates(coldStartRows)]
    /\ UNCHANGED coldStartRows
    /\ UNCHANGED <<coreVars, itemVars, tagRow, userVars>>

\* The limits get_seed_tracks is called with: the default and the hybrid
\* builder's.
SeedLimits == {20, 50}

\* get_seed_tracks(ScoringUser, limit), called for its list.
GetSeedTracks(limit) ==
    /\ LET r == get_seed_tracks(ScoringUser, limit)
       IN  poolResult' = [fn |-> "get_seed_tracks", limit |-> limit, exc |-> r.exc,
                          value |-> { <<PyNum(i), PyNum(r.value[i])>> : i \in DOMAIN r.value }]
    /\ UNCHANGED coldStartRows
    /\ UNCHANGED <<coreVars, itemVars, tagRow, userVars>>

InitPools ==
    /\ userTags = [k \in UTKeys |-> NoRow]
    /\ nOps = 0
    /\ last = NoCall
    /\ events \in OnboardingTables
    /\ onboarding_completed = [u \in Users |-> FALSE]
    /\ feedbackRows = [k \in Users \X Items |-> "none"]
    /\ recommendations = RecommendationRows
    /\ taskQueue = <<>>
    /\ resp = NoResp
    /\ buildLog = NoBuild
    /\ nPosts = 0
    /\ AccountsIdle
    /\ DiversityIdle
    /\ ConcIdle
    /\ track_ids = <<>>
    /\ user_tag_profile = EmptyMap
    /\ seed_tracks_ids = <<>>
    /\ listening_history = {}
    /\ top_items \in TopItemTables
    /\ returned = NotCalled
    /\ LocksIdle
    /\ ItemsIdle
    /\ TagIdle
    /\ UsersIdle
    /\ coldStartRows \in ColdStartTables
    /\ poolResult = NoPoolResult

NextPools ==
    \/ GetColdStartCandidates
    \/ \E limit \in SeedLimits : GetSeedTracks(limit)

SpecPools == InitPools /\ [][NextPools]_vars

--------------------------------------------------------------------------
(* Profile upkeep: recompute_computed and get_user_tag_profile on tables
   with deactivated rows *)

\* The user whose profile is kept.
ProfileUser == 1

\* UserTag.is_active set to False on every non-computed row of the tags: no
\* function of the repository writes False to the field, a row is
\* deactivated by an edit of the table.
deactivate(uts, tags) ==
    [ k \in UTKeys |->
        IF k[1] = ProfileUser /\ k[2] \in tags /\ k[3] # "computed" /\ uts[k].exists
        THEN [uts[k] EXCEPT !.is_active = FALSE]
        ELSE uts[k] ]

\* The tables of a user who completed onboarding (the computed rows were
\* written then), with the non-computed rows of some tags deactivated since.
ProfileTables ==
    { deactivate(OnboardedTags(ProfileUser), tags) : tags \in SUBSET Tags }

\* user_tags = get_user_tag_profile(user), as the builders call it.
GetUserTagProfile(user) ==
    /\ user_tag_profile' = get_user_tag_profile(userTags, user)
    /\ UNCHANGED <<track_ids, seed_tracks_ids, listening_history, top_items, returned>>
    /\ UNCHANGED <<tagVars, viewVars, accountVars, diversityVars, concVars, lockVars, miscVars>>

InitProfile ==
    /\ userTags \in ProfileTables
    /\ nOps = 0
    /\ last = NoCall
    /\ ViewsIdle
    /\ AuxIdle

NextProfile ==
    \/ \E k \in {1, 2}, a \in {"LIKE", "DISLIKE"} : ApplyFeedback(ProfileUser, k, a)
    \/ RecomputeComputed(ProfileUser)
    \/ GetUserTagProfile(ProfileUser)

SpecProfile == InitProfile /\ [][NextProfile]_vars

--------------------------------------------------------------------------
(* Claims checked under SpecViews *)

\* The Recommendation rows of (user, strategy) with is_active set.
ActiveRows(user, strategy) ==
    { r \in DOMAIN recommendations :
        /\ recommendations[r].user = user
        /\ recommendations[r].strategy = strategy
        /\ recommendations[r].is_active }

\* The last task ran a builder (it did not just return the active snapshot).
BuildAttempted == buildLog.outcome \notin {"none", "returned_active"}

\* C3: after a build for a user exactly one Recommendation row of that
\* (user, strategy) has is_active = True.
C3_AsStated ==
    BuildAttempted => Cardinality(ActiveRows(buildLog.user, buildLog.strategy)) = 1

\* C9: a build whose candidate pool is empty completes without raising and
\* persists a READY snapshot (with zero items).
C9_AsStated ==
    (BuildAttempted /\ candidate_ids(events, buildLog.user, buildLog.strategy) = {})
        => buildLog.outcome = "built"

\* Weight and confidence sums over the active non-computed rows of (user, tag),
\* written out source by source.
C6_Raw(uts, user, tag, s) ==
    IF uts[<<user, tag, s>>].exists /\ uts[<<user, tag, s>>].is_active
    THEN [n |-> 1, w |-> uts[<<user, tag, s>>].weight, c |-> uts[<<user, tag, s>>].confidence]
    ELSE [n |-> 0, w |-> 0, c |-> 0]

\* The computed rows of the user are the averages of the non-computed rows.
C6_ComputedFresh(uts, user) ==
    \A t \in Tags :
        LET f == C6_Raw(uts, user, t, "feedback")
            o == C6_Raw(uts, user, t, "onboarding_track")
            b == C6_Raw(uts, user, t, "onboarding_artist_fallback")
            n == f.n + o.n + b.n
        IN  n > 0 =>
              uts[<<user, t, "computed">>]
                = [exists |-> TRUE, weight |-> (f.w + o.w + b.w) \div n,
                   confidence |-> (f.c + o.c + b.c) \div n, is_active |-> TRUE]

\* The request just handled completed user u's onboarding.
C6_CompletionStep(u) ==
    /\ \E b \in OnboardingBatches : OnboardingPost(u, b)
    /\ ~onboarding_completed[u]
    /\ onboarding_completed'[u]

\* The request just handled recorded feedback a of user u on item i.
FeedbackRecorded(u, i, a) ==
    /\ FeedbackPost(u, i, a)
    /\ recommendations[ItemRec(i)].user = u

C7_Condition(fb, u, i) ==
    /\ recommendations[ItemRec(i)].is_active
    /\ \E j \in Items : ItemRec(j) = ItemRec(i) /\ ItemRank(j) < 5
    /\ Cardinality({ j \in Items : ItemRec(j) = ItemRec(i) /\ ItemRank(j) < 5
                                   /\ fb[<<u, j>>] # "none" })
         >= Cardinality({ j \in Items : ItemRec(j) = ItemRec(i) /\ ItemRank(j) < 5 })

\* C7: a feedback request enqueues build_recommendation_task(user,
\* force_rebuild=True) exactly when the item's snapshot is active, has an item
\* with rank < 5 and the user's feedback rows on its items with rank < 5 are
\* at least as many as those items; the message is enqueued with the
\* feedback row recorded, and no build runs inside the request.
C7_RebuildEnqueuedIffTopRated ==
    [][\A u \in Users, i \in Items, a \in Actions :
          FeedbackRecorded(u, i, a) =>
            /\ feedbackRows'[<<u, i>>] = a
            /\ IF C7_Condition(feedbackRows', u, i)
               THEN taskQueue' = taskQueue \o <<[user |-> u, force_rebuild |-> TRUE]>>
               ELSE taskQueue' = taskQueue
            /\ resp'.rebuild_triggered = C7_Condition(feedbackRows', u, i)
            /\ buildLog' = buildLog
            /\ recommendations' = recommendations]_vars

\* A feedback request has just rated the last unrated top item of the active
\* snapshot 1 and its rebuild message is waiting in the queue.
C7_Witness ==
    /\ resp.view = "feedback"
    /\ resp.rebuild_triggered
    /\ \A j \in 1 .. 5 : feedbackRows[<<1, j>>] # "none"
    /\ feedbackRows[<<1, 6>>] = "none"
    /\ taskQueue = <<[user |-> 1, force_rebuild |-> TRUE]>>

--------------------------------------------------------------------------
(* Claims checked under SpecStrategy *)

\* C10: detect_strategy(user) returns COLD_START exactly when the user has
\* no SpotifyAccount, WARM_START exactly when the user has one and the
\* ListeningHistory count plus the UserTopItem count is below 20, and
\* HYBRID_START exactly when the user has one and that sum is at least 20.
C10_StrategyByAccountAndSignals ==
    [][\A u \in Users :
          DetectStrategy(u) =>
            /\ strategyLog'.strategy = "COLD_START" <=> ~hasSpotify[u]
            /\ strategyLog'.strategy = "WARM_START"
                 <=> (hasSpotify[u] /\ historyCount[u] + topItemsCount[u] < 20)
            /\ strategyLog'.strategy = "HYBRID_START"
                 <=> (hasSpotify[u] /\ historyCount[u] + topItemsCount[u] >= 20)]_vars

\* detect_strategy answered HYBRID_START for a user with exactly 20 signals.
C10_Witness ==
    /\ strategyLog.user \in Users
    /\ strategyLog.strategy = "HYBRID_START"
    /\ hasSpotify[strategyLog.user]
    /\ historyCount[strategyLog.user] + topItemsCount[strategyLog.user] = 20

--------------------------------------------------------------------------
(* Claims checked under SpecDiversity *)

\* The primary artist of a track id: the first of its artists, 0 without one.
C8_PrimaryArtist(t) ==
    IF t \in Tracks /\ TrackArtists(t) # <<>> THEN TrackArtists(t)[1] ELSE 0

\* Entry i is among the first k entries of its primary artist.
C8_Kept(list, k, i) ==
    \/ C8_PrimaryArtist(list[i][1]) = 0
    \/ Cardinality({ j \in 1 .. (i - 1) :
                       C8_PrimaryArtist(list[j][1]) = C8_PrimaryArtist(list[i][1]) }) < k

RECURSIVE C8_FirstK(_, _, _)
C8_FirstK(list, k, i) ==
    IF i > Len(list) THEN <<>>
    ELSE (IF C8_Kept(list, k, i) THEN <<list[i]>> ELSE <<>>) \o C8_FirstK(list, k, i + 1)

\* C8: for every input list and every k, apply_artist_diversity returns the
\* subsequence of the input made of the first k entries of each primary
\* artist, in input order.
C8_AsStated ==
    diversityResult # NoResult =>
        /\ diversityResult.exc = "none"
        /\ diversityResult.value = C8_FirstK(scored_tracks, max_per_artist, 1)

--------------------------------------------------------------------------
(* Claims checked under SpecConc *)

\* Both calls have ended, by returning or by raising.
C2_BothEnded == \A p \in Procs : pc[p] \in {"done", "failed"}

\* The table after call p and then call q, run one after the other.
C2_Serial(p, q) ==
    apply_feedback_to_tags(
        apply_feedback_to_tags(committedBefore, ConcUser, call[p].track, call[p].action),
        ConcUser, call[q].track, call[q].action)

\* C2: when two concurrent apply_feedback_to_tags calls of one user have
\* ended, the user's feedback rows are what applying both influences one
\* after the other, in one of the two orders, gives: no update is lost.
C2_AsStated ==
    C2_BothEnded => (userTags = C2_Serial(1, 2) \/ userTags = C2_Serial(2, 1))

--------------------------------------------------------------------------
(* Claims checked under SpecScoring *)

\* The raw tag affinity of a track: the sum over its active TrackTag rows of
\* profile[tag] * weight.
C11_Raw(profile, track) ==
    LET rows == { r \in TrackTagRows : r.track = track /\ r.is_active }
        term == [r \in rows |-> (Get(profile, r.tag) * r.weight) \div One]
    IN  SumOver(term, rows)

\* C11: score_tracks_by_tags with a non-empty profile returns a map keyed by
\* candidate track id whose values are the tracks' raw sums divided by the
\* largest raw sum of the candidates, so the best candidate gets exactly 1;
\* with an empty profile it returns an empty map.
C11_AsStated ==
    returned.fn = "score_tracks_by_tags" =>
        LET cands == { track_ids[i] : i \in DOMAIN track_ids }
            rawmax == MaxOver([t \in cands |-> C11_Raw(user_tag_profile, t)], cands)
        IN  /\ Keys(user_tag_profile) = {} => returned.value = EmptyMap
            /\ Keys(returned.value) \subseteq cands
            /\ rawmax > 0 =>
                 \A t \in cands :
                    Get(returned.value, t) = (C11_Raw(user_tag_profile, t) * One) \div rawmax

\* The three signals of a candidate as the loops look them up.
C12_Popularity(t) == Get(PopularityScores, t)
C12_Tag(t) == Get(score_tracks_by_tags(track_ids, user_tag_profile), t)
C12_Similarity(t) == Get(score_tracks_by_similarity(seed_tracks_ids, track_ids), t)

\* Some entry of the scored list gives track t the final score f.
C12_Scored(t, f) ==
    \E i \in DOMAIN returned.value :
        returned.value[i].track_id = t /\ returned.value[i].final_score = f

C13_AsStated ==
    returned.fn \in {"cold_start_loop", "hybrid_loop"} =>
        /\ returned.exc = "none"
        /\ Len(returned.value) = Len(track_ids)
        /\ \A i \in DOMAIN track_ids :
              Cardinality({ j \in DOMAIN returned.value :
                              returned.value[j].track_id = track_ids[i] }) = 1

\* C14: no track that survives exclusion belongs to the user's exclusion
\* set: for the cold start build the tracks the user has an OnboardingEvent
\* for, for the hybrid build the tracks of the user's ListeningHistory and of
\* the user's track-type UserTopItem rows.
C14_AsStated ==
    /\ returned.fn = "cold_start_candidate_ids" =>
          \A i \in DOMAIN returned.value :
              \A c \in ColdStartIds :
                  ColdStartTrackOf(c) = returned.value[i] => events[<<ScoringUser, c>>] = "none"
    /\ returned.fn = "hybrid_candidate_ids" =>
          \A i \in DOMAIN returned.value :
              /\ returned.value[i] \notin listening_history
              /\ \A r \in top_items : r.item_type = "track" => r.track # returned.value[i]

\* C15: no tag that fails the quality filter (blocklisted name, usage below
\* MIN_TAG_USAGE_COUNT, or an inactive assignment) has a UserTag row written
\* by the feedback or onboarding-like path, is in the user's tag profile, or
\* contributes a score in score_tracks_by_tags.
C15_Contributing ==
    IF returned.fn = "score_tracks_by_tags" THEN DOMAIN returned.value ELSE {}

C15_OnlyQualityTagsContribute ==
    /\ \A k \in UTKeys : userTags[k].exists => TagPassesFilter(k[2])
    /\ \A t \in DOMAIN user_tag_profile : TagPassesFilter(t)
    /\ \A t \in C15_Contributing :
          /\ TagPassesFilter(t)
          /\ \E r \in TrackTagRows, i \in DOMAIN track_ids :
                r.tag = t /\ r.track = track_ids[i] /\ r.is_active

\* A score was computed for candidates that carry an active assignment of a
\* failing tag and an inactive assignment of a tag of the profile.
C15_Witness ==
    /\ C15_Contributing # {}
    /\ \E r \in TrackTagRows, i \in DOMAIN track_ids :
          r.track = track_ids[i] /\ r.is_active /\ ~TagPassesFilter(r.tag)
    /\ \E r \in TrackTagRows, i \in DOMAIN track_ids :
          /\ r.track = track_ids[i] /\ ~r.is_active /\ r.tag \in DOMAIN user_tag_profile
          /\ \A q \in TrackTagRows : q.tag = r.tag /\ q.is_active =>
                \A j \in DOMAIN track_ids : q.track # track_ids[j]

\* C16: is_valid_tag(tag) is false exactly when the tag's name is blocklisted
\* or its usage count is below MIN_TAG_USAGE_COUNT, and its verdict is the
\* verdict of the tag predicate of filter_track_tags, filter_artist_tags and
\* the feedback adapter's query, for every tag.
C16_AsStated ==
    returned.fn = "is_valid_tag" =>
        LET t == returned.value.tag IN
        /\ ~returned.value.valid <=>
              (TagName(t) \in BLOCKED_TAG_NAMES \/ TagUsage(t) < MIN_TAG_USAGE_COUNT)
        /\ returned.value.valid <=> TagPassesFilter(t)
        /\ \A r \in TrackTagRows : r.tag = t /\ r.is_active =>
              (returned.value.valid <=> r \in filter_track_tags({r}))
        /\ \A r \in TrackTagRows : r.tag = t /\ r.is_active =>
              (returned.value.valid <=> r \in FeedbackTrackTags(r.track))
        /\ \A r \in ArtistTagRows : r.tag = t /\ r.is_active =>
              (returned.value.valid <=> r \in filter_artist_tags({r}))

--------------------------------------------------------------------------
(* Claims checked under SpecLocks *)

\* Refresh execution k of the source of j, other than j, is doing the
\* pipeline's work under the lock.
C18_OtherWorking(j) ==
    \E k \in RefreshJobs : k # j /\ k[1] = j[1] /\ refreshTasks[k].pc = "working"

C20_AsStated ==
    [][\A j \in RefreshJobs : RefreshEnter(j) =>
          LET key == LockKey("cold_start_source", j[1])
          IN  IF key \in cache
              THEN /\ refreshTasks'[j] = [pc |-> "done", raised |-> "none",
                                          value |-> "skipped (locked)"]
                   /\ cache' = cache
              ELSE /\ refreshTasks'[j].pc = "working"
                   /\ refreshTasks'[j].raised = "none"
                   /\ cache' = cache \cup {key}
    ]_vars

--------------------------------------------------------------------------
(* Claims checked under SpecItems *)

\* Exactly one of track and artist is set, and it is the one the type names.
C21_WellFormed(item) ==
    \/ item.type = "TRACK" /\ item.track # 0 /\ item.artist = 0
    \/ item.type = "ARTIST" /\ item.artist # 0 /\ item.track = 0

\* C21: every persisted RecommendationItem has exactly one of track and
\* artist set, matching its type, and an attempt to create any other item
\* ends in a validation error with nothing persisted.
C21_AsStated ==
    /\ \A i \in DOMAIN itemRows : C21_WellFormed(itemRows[i])
    /\ (itemResult.path # "none" /\ ~C21_WellFormed(itemResult.item)) =>
          (~itemResult.saved /\ itemResult.exc \in {"ValidationError", "ValueError"})

--------------------------------------------------------------------------
(* Claims checked under SpecTagNames *)

\* C22: Tag.normalize is idempotent: the normalized_name of a saved tag is a
\* fixed point of normalize, whatever the name (leading or trailing hyphens
\* and spaces included).
C22_AsStated ==
    tagRow.saved => normalize(tagRow.normalized_name) = tagRow.normalized_name

--------------------------------------------------------------------------
(* Further claims checked under SpecViews *)

\* The number of RecommendationFeedback rows of a table.
C23_RowCount(fb) == Cardinality({ k \in Users \X Items : fb[k] # "none" })

\* C23: there is one RecommendationFeedback row per (user, item) at most: a
\* submission for an item the user has not rated adds exactly that row and is
\* reported as "created"; a submission for a rated item overwrites the
\* action of its row, adds no row and is reported as "updated".
C23_UpsertInPlace ==
    [][\A u \in Users, i \in Items, a \in Actions :
          (FeedbackPost(u, i, a) /\ resp'.status = 200) =>
              /\ feedbackRows'[<<u, i>>] = a
              /\ \A k \in Users \X Items : k # <<u, i>> => feedbackRows'[k] = feedbackRows[k]
              /\ IF feedbackRows[<<u, i>>] = "none"
                 THEN /\ resp'.body = "created"
                      /\ C23_RowCount(feedbackRows') = C23_RowCount(feedbackRows) + 1
                 ELSE /\ resp'.body = "updated"
                      /\ C23_RowCount(feedbackRows') = C23_RowCount(feedbackRows)
    ]_vars

\* Two submissions were made for one item: the table holds a single row, the
\* second response says "updated" and the row holds the action sent last.
C23_Witness ==
    /\ resp.view = "feedback"
    /\ resp.body = "updated"
    /\ nPosts = 2
    /\ C23_RowCount(feedbackRows) = 1
    /\ \E i \in Items : feedbackRows[<<resp.user, i>>] = "DISLIKE"

--------------------------------------------------------------------------
(* Claims checked under SpecUsers *)

\* The call has an email, a password and a well-formed address.
C24_ValidCall(email, password) ==
    /\ email \notin {"<None>", ""}
    /\ password \notin {"<None>", ""}
    /\ email \in {"Tomek@ONET.pl", "Tomek@onet.pl", "asd123@onet.pl"}

\* The call added exactly one active, non-staff user with that password.
C24_Added(before, after, password) ==
    /\ Len(after) = Len(before) + 1
    /\ SubSeq(after, 1, Len(before)) = before
    /\ after[Len(after)].is_active
    /\ ~after[Len(after)].is_staff
    /\ after[Len(after)].password = <<"hash", password>>

\* C24 as stated: a create_user call without email, without password or with
\* a malformed email raises ValueError and adds no row; every other call adds
\* exactly one active, non-staff user whose password verifies.
C24_AsStated ==
    [][\A e \in EmailInputs, p \in PasswordInputs : CreateUser(e, p) =>
          IF C24_ValidCall(e, p)
          THEN userResult'.exc = "none" /\ C24_Added(userRows, userRows', p)
          ELSE userResult'.exc = "ValueError" /\ userRows' = userRows
    ]_vars

\* The email of the call, domain lower-cased, is the email of a stored user.
C24_EmailTaken(rows, e) ==
    \E i \in DOMAIN rows :
        rows[i].email = (IF e = "Tomek@ONET.pl" THEN "Tomek@onet.pl" ELSE e)

\* C24, amended: the same, for valid calls whose email no user has yet; a
\* valid call with a used email adds no row.
C24_CreateUserValidates ==
    [][\A e \in EmailInputs, p \in PasswordInputs : CreateUser(e, p) =>
          IF ~C24_ValidCall(e, p)
          THEN userResult'.exc = "ValueError" /\ userRows' = userRows
          ELSE IF C24_EmailTaken(userRows, e)
          THEN userResult'.exc # "none" /\ userRows' = userRows
          ELSE userResult'.exc = "none" /\ C24_Added(userRows, userRows', p)
    ]_vars

\* A user exists and the last call, with a malformed email, was refused.
C24_Witness ==
    /\ Len(userRows) = 1
    /\ userRows[1].is_active /\ ~userRows[1].is_staff
    /\ userResult.email = "asd123@onetpl"
    /\ userResult.password = "pw-two"
    /\ userResult.exc = "ValueError"

--------------------------------------------------------------------------
(* Claims checked under SpecPools *)

\* C25: get_cold_start_candidates returns one entry per track with a
\* ColdStartTrack row, mapping the track id to the maximum score among the
\* rows of that track.
C25_AsStated ==
    poolResult.fn = "get_cold_start_candidates" =>
        poolResult.value =
            { <<[type |-> "num", s |-> "", n |-> t],
                [type |-> "num", s |-> "", n |-> m]>> :
                <<t, m>> \in { p \in (1 .. 2) \X {Pct(50), Pct(90)} :
                                /\ \E r \in coldStartRows : r.track = p[1] /\ r.score = p[2]
                                /\ \A r \in coldStartRows : r.track = p[1] => r.score <= p[2] } }

\* The tracks the seeds are drawn from: the tracks the user liked in
\* onboarding and the tracks of the user's top items.
C26_Sources ==
    { ColdStartTrackOf(c) : c \in { d \in ColdStartIds : events[<<ScoringUser, d>>] = "LIKE" } }
        \cup { r.track : r \in { x \in top_items : x.track # 0 } }

\* C26: get_seed_tracks(user, limit) returns a list of at most limit ids
\* without duplicates, drawn from the user's liked onboarding tracks, recent
\* listens and top items, and holding all of them when they are fewer than
\* limit.
C26_AsStated ==
    poolResult.fn = "get_seed_tracks" =>
        /\ poolResult.exc = "none"
        /\ Cardinality(poolResult.value) <= poolResult.limit
        /\ \A p, q \in poolResult.value : (p[2] = q[2]) => p = q
        /\ { p[2].n : p \in poolResult.value } \subseteq C26_Sources
        /\ Cardinality(C26_Sources) <= poolResult.limit =>
              { p[2].n : p \in poolResult.value } = C26_Sources

--------------------------------------------------------------------------
(* Further claims checked under SpecLocks *)

\* Refresh execution j holds the lock of its source: it is inside the
\* guarded block and the key's entry is in the cache.
C27_Holds(j) ==
    /\ refreshTasks[j].pc = "working"
    /\ LockKey("cold_start_source", j[1]) \in cache

--------------------------------------------------------------------------
(* Claims about repeated feedback, checked under SpecViews *)

\* The weight movement one submission with delta d (percent) makes over the
\* TrackTag rows of one tag: d * weight for each row.
RECURSIVE C28_Total(_, _)
C28_Total(rows, d) ==
    IF rows = {} THEN 0
    ELSE LET r == CHOOSE x \in rows : TRUE
         IN  (d * r.weight) \div 100 + C28_Total(rows \ {r}, d)

\* The largest weight among the TrackTag rows.
C28_TopWeight(rows) ==
    (CHOOSE r \in rows : \A q \in rows : q.weight <= r.weight).weight

C28_Clamp(x) == IF x < 0 THEN 0 ELSE IF x > One THEN One ELSE x

\* C28: tag deltas are applied once per feedback submission: every recorded
\* LIKE or DISLIKE, whether it created the feedback row or updated it, moves
\* the feedback weight and confidence of each quality-passing tag of the
\* item's track by the action's delta from the row's current value (from the
\* soft-start value when the row is new), so a repeated LIKE adds a further
\* increment and a DISLIKE after a LIKE subtracts from the raised value.
C28_DeltasPerSubmission ==
    [][\A u \in Users, i \in Items, a \in {"LIKE", "DISLIKE"} :
          FeedbackRecorded(u, i, a) =>
            /\ resp'.body = (IF feedbackRows[<<u, i>>] = "none" THEN "created" ELSE "updated")
            /\ \A r \in FeedbackTrackTags(ItemTrack(i)) :
                  LET key == <<u, r.tag, "feedback">>
                      old == userTags[key]
                      rows == { q \in FeedbackTrackTags(ItemTrack(i)) : q.tag = r.tag }
                      dw == IF a = "LIKE" THEN 10 ELSE 0 - 15
                      dc == IF a = "LIKE" THEN 5 ELSE 0 - 5
                      w0 == IF old.exists THEN old.weight
                            ELSE (30 * C28_TopWeight(rows)) \div 100
                      c0 == IF old.exists THEN old.confidence ELSE (40 * One) \div 100
                  IN  /\ userTags'[key].exists
                      /\ userTags'[key].weight = C28_Clamp(w0 + C28_Total(rows, dw))
                      /\ userTags'[key].confidence = C28_Clamp(c0 + C28_Total(rows, dc))
                      /\ (old.exists /\ a = "LIKE" /\ old.weight < One)
                            => userTags'[key].weight > old.weight]_vars

\* User 1 has submitted LIKE twice for item 1 and has no other feedback row:
\* the second request was an update, and tag 1 (track-tag weight 1.0) stands
\* at the soft-start value 0.4 plus one further increment of 0.1.
C28_Witness ==
    /\ resp.view = "feedback"
    /\ resp.body = "updated"
    /\ nPosts = 2
    /\ \A k \in Users \X Items :
          feedbackRows[k] = (IF k = <<1, 1>> THEN "LIKE" ELSE "none")
    /\ userTags[<<1, 1, "feedback">>].weight = Pct(50)
    /\ userTags[<<1, 2, "feedback">>].weight = Pct(40)

\* Before the request, user u has feedback on every item with rank < 5 of
\* the snapshot of item i, and the snapshot has such an item.
C29_TopAlreadyRated(u, i) ==
    /\ \E j \in Items : ItemRec(j) = ItemRec(i) /\ ItemRank(j) < 5
    /\ \A j \in Items :
          (ItemRec(j) = ItemRec(i) /\ ItemRank(j) < 5) => feedbackRows[<<u, j>>] # "none"

\* C29: rebuild requests are not deduplicated: once the user has feedback on
\* every item with rank < 5 of a snapshot, every further recorded submission
\* on an item of that snapshot, on a non-top item or on an item already
\* rated, appends one more forced rebuild to the queue while the snapshot is
\* active, whatever the queue already holds.
C29_EveryFurtherSubmissionEnqueues ==
    [][\A u \in Users, i \in Items, a \in Actions :
          (/\ FeedbackRecorded(u, i, a)
           /\ C29_TopAlreadyRated(u, i)
           /\ recommendations[ItemRec(i)].is_active)
            => /\ taskQueue' = Append(taskQueue, [user |-> u, force_rebuild |-> TRUE])
               /\ resp'.rebuild_triggered]_vars

\* Two forced rebuilds of user 1 wait in the queue: the request that rated
\* the last top item of snapshot 1 enqueued one, and the next request, on the
\* non-top item 6, enqueued another.
C29_Witness ==
    /\ nPosts = 2
    /\ resp.view = "feedback"
    /\ resp.body = "created"
    /\ resp.rebuild_triggered
    /\ feedbackRows[<<1, 6>>] # "none"
    /\ \A j \in 1 .. 5 : feedbackRows[<<1, j>>] # "none"
    /\ taskQueue = <<[user |-> 1, force_rebuild |-> TRUE], [user |-> 1, force_rebuild |-> TRUE]>>

--------------------------------------------------------------------------
(* Claims checked under SpecProfile *)

\* Tag t of user u has no active non-computed row in the table.
C30_NoActiveRaw(uts, u, t) ==
    \A s \in Sources \ {"computed"} : ~(uts[<<u, t, s>>].exists /\ uts[<<u, t, s>>].is_active)

\* C30: recompute_computed creates or updates "computed" rows of its user
\* and nothing else: no row is deleted or deactivated, the computed row of a
\* tag without an active non-computed row keeps its weight and confidence,
\* and get_user_tag_profile returns every active computed row, that one
\* included, as weight * confidence.
C30_ComputedRowsAreKept ==
    /\ [][\A u \in Users : RecomputeComputed(u) =>
            /\ \A k \in UTKeys :
                  /\ userTags[k].exists => userTags'[k].exists
                  /\ (userTags[k].exists /\ userTags[k].is_active) => userTags'[k].is_active
                  /\ (k[1] # u \/ k[3] # "computed") => userTags'[k] = userTags[k]
            /\ \A t \in Tags :
                  C30_NoActiveRaw(userTags, u, t)
                    => userTags'[<<u, t, "computed">>] = userTags[<<u, t, "computed">>]
         ]_vars
    /\ [][\A u \in Users : GetUserTagProfile(u) =>
            \A t \in Tags :
               (userTags[<<u, t, "computed">>].exists /\ userTags[<<u, t, "computed">>].is_active)
                 => /\ t \in DOMAIN user_tag_profile'
                    /\ user_tag_profile'[t] =
                         (userTags[<<u, t, "computed">>].weight
                            * userTags[<<u, t, "computed">>].confidence) \div One
         ]_vars

\* recompute_computed has run for user 1 while all non-computed rows of some
\* tag were inactive: the tag's computed row is still there, active and with
\* the values onboarding gave it, and the profile returned contains the tag.
C30_Witness ==
    /\ last.op = "recompute"
    /\ last.user = 1
    /\ \E t \in Tags :
          /\ C30_NoActiveRaw(userTags, 1, t)
          /\ \E s \in Sources \ {"computed"} : userTags[<<1, t, s>>].exists
          /\ userTags[<<1, t, "computed">>] = OnboardedTags(1)[<<1, t, "computed">>]
          /\ userTags[<<1, t, "computed">>].is_active
          /\ t \in DOMAIN user_tag_profile

=============================================================================
